---------------------------- MODULE Spec2Model ----------------------------
(***************************************************************************)
(* Model of the data-fusion and composite-scoring pipeline of the          *)
(* Streamlit-BGM-Website repository:                                       *)
(*   src/nfl_info.py        source loaders and construct_intelligent_dataset*)
(*   src/advanced_stats.py  add_trajectory_metrics,                        *)
(*                          calculate_composite_metrics                    *)
(*   src/website_setup.py   load_all_data (the order of the two steps)     *)
(*                                                                         *)
(* Numbers.  A pandas float cell is modelled by a record [k, n, d]:        *)
(*   k = "num" : the rational n/d in lowest terms, d > 0                   *)
(*   k = "inf" : +infinity (n = 1) or -infinity (n = -1)                   *)
(*   k = "nan" : NaN, which is also pandas' null                           *)
(* Arithmetic follows IEEE-754 for the special values and is exact on the  *)
(* rationals (binary rounding is not modelled).                            *)
(*                                                                         *)
(* A z-score (x - mean) / std is irrational in general; it is kept as the  *)
(* pair [dev, div2] of its numerator and the SQUARE of its divisor, so     *)
(* that "is NaN", "is 0", sign and ratio questions are decided exactly.    *)
(* A weighted sum of z-scores is kept as the sequence of its terms.        *)
(***************************************************************************)
EXTENDS Integers, Sequences, FiniteSets, TLC

VARIABLES
    \* ---- scoring pipeline (website_setup.load_all_data) ----
    pc,         \* position in load_all_data: "csv", "traj", "scored", "error",
                \* "reloaded" after a second run
    adv_data,   \* the table read from ff_player_basic_dataset.csv
    columns,    \* which of the optional/validated columns the table has
    full_data,  \* result of add_trajectory_metrics
    scored,     \* result of calculate_composite_metrics
    err,        \* column names carried by the ValueError, {} when none
    \* ---- fusion pipeline (nfl_info.construct_intelligent_dataset) ----
    fpc,        \* position in construct_intelligent_dataset
    src,        \* the raw source tables as the loaders receive them
    pfr_kept,   \* per stat type, the rows left by the multi-team collapse
    df_pfr,     \* result of get_pfr_advstats_combined
    df_contracts, \* result of get_contract_data
    final_df,   \* the fused table
    csv_written,\* TRUE once final_df was written to the snapshot file
    ferr,       \* "none" or the exception construct_intelligent_dataset raised
    \* ---- ranking calls (internal_rankings.py, generate_dynasty_rankings) ----
    rpc,        \* "idle", "ready", "returned" or "raised"
    all_data,   \* the table the caller passes to the ranking function
    call,       \* the call that was made: the function and its arguments
    ranked,     \* the table the call returned
    rerr        \* "none" or the exception the call raised

engine_vars == <<pc, adv_data, columns, full_data, scored, err>>
fusion_vars == <<fpc, src, pfr_kept, df_pfr, df_contracts, final_df, csv_written, ferr>>
ranking_vars == <<rpc, all_data, call, ranked, rerr>>
vars == <<pc, adv_data, columns, full_data, scored, err,
          fpc, src, pfr_kept, df_pfr, df_contracts, final_df, csv_written, ferr,
          rpc, all_data, call, ranked, rerr>>

---------------------------------------------------------------------------
(* Float cells *)

Abs(i) == IF i < 0 THEN -i ELSE i

RECURSIVE GCD(_, _)
GCD(a, b) == IF b = 0 THEN a ELSE GCD(b, a % b)

NaN == [k |-> "nan", n |-> 0, d |-> 1]
Inf(s) == [k |-> "inf", n |-> s, d |-> 1]

\* the rational n/d (d # 0) in lowest terms
Q(n, d) ==
    LET g == GCD(Abs(n), Abs(d))
        s == IF d < 0 THEN -1 ELSE 1
    IN  [k |-> "num", n |-> (s * n) \div g, d |-> (s * d) \div g]

I(n) == Q(n, 1)
Zero == I(0)
One == I(1)

IsNa(x) == x.k = "nan"
NotNa(x) == x.k # "nan"
IsFinite(x) == x.k = "num"
Sign(x) == IF x.n > 0 THEN 1 ELSE IF x.n < 0 THEN -1 ELSE 0

Neg(x) == IF x.k = "nan" THEN NaN ELSE [x EXCEPT !.n = -x.n]

Add(x, y) ==
    IF x.k = "nan" \/ y.k = "nan" THEN NaN
    ELSE IF x.k = "inf" /\ y.k = "inf" THEN (IF x.n = y.n THEN x ELSE NaN)
    ELSE IF x.k = "inf" THEN x
    ELSE IF y.k = "inf" THEN y
    ELSE Q(x.n * y.d + y.n * x.d, x.d * y.d)

Sub(x, y) == Add(x, Neg(y))

Mul(x, y) ==
    IF x.k = "nan" \/ y.k = "nan" THEN NaN
    ELSE IF x.k = "inf" \/ y.k = "inf"
         THEN (IF Sign(x) = 0 \/ Sign(y) = 0 THEN NaN ELSE Inf(Sign(x) * Sign(y)))
    ELSE Q(x.n * y.n, x.d * y.d)

\* float division: x/0 is +-inf, 0/0 is NaN, neither raises
Div(x, y) ==
    IF x.k = "nan" \/ y.k = "nan" THEN NaN
    ELSE IF y.k = "inf" THEN (IF x.k = "inf" THEN NaN ELSE Zero)
    ELSE IF x.k = "inf" THEN Inf(IF Sign(y) < 0 THEN -x.n ELSE x.n)
    ELSE IF y.n = 0 THEN (IF x.n = 0 THEN NaN ELSE Inf(Sign(x)))
    ELSE Q(x.n * y.d, x.d * y.n)

\* comparisons: every comparison with NaN is False, except != which is True
Lt(x, y) ==
    /\ x.k # "nan" /\ y.k # "nan"
    /\ IF x.k = "inf" THEN x.n < 0 /\ ~(y.k = "inf" /\ y.n < 0)
       ELSE IF y.k = "inf" THEN y.n > 0
       ELSE x.n * y.d < y.n * x.d
Gt(x, y) == Lt(y, x)
Eq(x, y) == x.k # "nan" /\ y.k # "nan" /\ x = y
Ne(x, y) == ~Eq(x, y)
Ge(x, y) == Gt(x, y) \/ Eq(x, y)
Le(x, y) == Lt(x, y) \/ Eq(x, y)

FillNa(x, v) == IF IsNa(x) THEN v ELSE x          \* Series.fillna(v)
Replace(x, a, b) == IF Eq(x, a) THEN b ELSE x     \* Series.replace(a, b)
Where(c, a, b) == IF c THEN a ELSE b              \* np.where(c, a, b), elementwise
ClipLo(x, lo) == IF Lt(x, lo) THEN lo ELSE x      \* Series.clip(lower=lo)
Clip(x, lo, hi) == IF Lt(x, lo) THEN lo ELSE IF Gt(x, hi) THEN hi ELSE x
\* Series.astype(int) of a finite cell: truncation toward zero
AsInt(x) == IF x.k # "num" THEN x ELSE I(Sign(x) * (Abs(x.n) \div x.d))

---------------------------------------------------------------------------
(* Column reductions: pandas skips NaN (skipna=True) *)

RECURSIVE SumSeq(_)
SumSeq(xs) == IF xs = <<>> THEN Zero ELSE Add(Head(xs), SumSeq(Tail(xs)))

NonNa(xs) == SelectSeq(xs, NotNa)

\* Series.mean(): NaN for a column with no value
Mean(xs) ==
    LET v == NonNa(xs)
    IN  IF Len(v) = 0 THEN NaN ELSE Div(SumSeq(v), I(Len(v)))

\* (variant) the population variance (ddof = 0)
VarPopulation(xs) ==
    LET v == NonNa(xs)
        m == Mean(xs)
        sq == [i \in 1..Len(v) |-> Mul(Sub(v[i], m), Sub(v[i], m))]
    IN  IF Len(v) < 2 THEN NaN ELSE Div(SumSeq(sq), I(Len(v)))

\* square of Series.std() (ddof = 1): NaN unless at least two values
Var(xs) ==
    LET v == NonNa(xs)
        m == Mean(xs)
        sq == [i \in 1..Len(v) |-> Mul(Sub(v[i], m), Sub(v[i], m))]
    IN  IF Len(v) < 2 THEN NaN ELSE Div(SumSeq(sq), I(Len(v) - 1))

\* a z-score: dev / sqrt(div2)
ZNaN == [dev |-> NaN, div2 |-> One]
ZIsNa(z) == IsNa(z.dev) \/ IsNa(z.div2) \/ (z.dev = Zero /\ z.div2 = Zero)
ZIsZero(z) == ~ZIsNa(z) /\ z.dev = Zero
ZScale(z, q) == [dev |-> Mul(z.dev, q), div2 |-> z.div2]
ZNum(q) == [dev |-> q, div2 |-> One]
ZFillNa(z, q) == IF ZIsNa(z) THEN ZNum(q) ELSE z

\* (variant) the divisor without the zero guard:  (x - x.mean()) / x.std()
StdUnguarded2(xs) == Var(xs)

\* the divisor of  lambda x: (x - x.mean()) / (x.std() if x.std() != 0 else 1),
\* squared:  std != 0  is True for a NaN std, so only an exact 0 becomes 1
StdOrOne2(xs) == LET v == Var(xs) IN IF Ne(v, Zero) THEN v ELSE One

ZScore(x, xs) == [dev |-> Sub(x, Mean(xs)), div2 |-> StdOrOne2(xs)]

\* (variant) the decline z-score without the inversion
ZScoreDeclineSameSign(x, xs) == [dev |-> Sub(x, Mean(xs)), div2 |-> StdOrOne2(xs)]

\* lambda x: (x.mean() - x) / (x.std() if x.std() != 0 else 1)
ZScoreDecline(x, xs) == [dev |-> Sub(Mean(xs), x), div2 |-> StdOrOne2(xs)]

\* a sum of z-scores and rationals, term by term
SymIsNa(s) == \E i \in DOMAIN s : ZIsNa(s[i])
SymScale(s, q) == [i \in DOMAIN s |-> ZScale(s[i], q)]

RECURSIVE InsertVal(_, _)
InsertVal(x, s) ==
    IF s = <<>> THEN <<x>>
    ELSE IF Lt(x, Head(s)) THEN <<x>> \o s
    ELSE <<Head(s)>> \o InsertVal(x, Tail(s))

RECURSIVE SortVals(_)
SortVals(xs) == IF xs = <<>> THEN <<>> ELSE InsertVal(Head(xs), SortVals(Tail(xs)))

\* Series.quantile(pn/pd), linear interpolation between order statistics
Quantile(xs, pn, pd) ==
    LET v == SortVals(NonNa(xs))
        n == Len(v)
        lo == ((n - 1) * pn) \div pd
        frac == Q(((n - 1) * pn) % pd, pd)
    IN  IF n = 0 THEN NaN
        ELSE IF lo + 1 >= n THEN v[n]
        ELSE Add(v[lo + 1], Mul(frac, Sub(v[lo + 2], v[lo + 1])))

---------------------------------------------------------------------------
(* Tables are sequences of rows; a row is a record of cells *)

RECURSIVE InsertRow(_, _)
InsertRow(r, s) ==
    IF s = <<>> THEN <<r>>
    ELSE IF r.player_id < Head(s).player_id
            \/ (r.player_id = Head(s).player_id /\ r.season < Head(s).season)
         THEN <<r>> \o s
    ELSE <<Head(s)>> \o InsertRow(r, Tail(s))

\* df.sort_values(['player_id', 'season']): ascending, rows with equal keys keep
\* their order
RECURSIVE SortValues(_)
SortValues(df) ==
    IF df = <<>> THEN <<>>
    ELSE InsertRow(df[Len(df)], SortValues(SubSeq(df, 1, Len(df) - 1)))

\* the table <<F(df[1]), ..., F(df[n])>>
RECURSIVE MapRows(_, _)
MapRows(F(_), df) ==
    IF df = <<>> THEN <<>> ELSE <<F(Head(df))>> \o MapRows(F, Tail(df))


---------------------------------------------------------------------------
(* add_trajectory_metrics *)

\* np.where(position == 'RB', rushing_yards / carries.replace(0, 1),
\*                            receiving_yards / targets.replace(0, 1))
raw_per_touch_yards(r) ==
    Where(r.position = "RB",
          Div(r.rushing_yards, Replace(r.carries, Zero, One)),
          Div(r.receiving_yards, Replace(r.targets, Zero, One)))

\* (variant) df['raw_per_touch_yards'].shift(1) without the groupby: the row above
prev_efficiency_ungrouped(df, i) ==
    IF i = 1 THEN NaN ELSE raw_per_touch_yards(df[i - 1])

\* df.groupby('player_id')['raw_per_touch_yards'].shift(1) at row i of the sorted
\* table: the value of the nearest earlier row of the same player, else null
prev_efficiency(df, i) ==
    LET same == {j \in 1..(i - 1) : df[j].player_id = df[i].player_id}
    IN  IF same = {} THEN NaN
        ELSE raw_per_touch_yards(df[CHOOSE j \in same : \A m \in same : m <= j])

efficiency_delta(df, i) == Sub(raw_per_touch_yards(df[i]), prev_efficiency(df, i))

\* (variant) the z-score taken over the rows of the group with games >= 8 only
norm_trajectory_at_floor(r, df) ==
    ZScore(r.efficiency_delta,
           MapRows(LAMBDA x : x.efficiency_delta,
                   SelectSeq(df, LAMBDA x : /\ x.position = r.position
                                            /\ x.season = r.season
                                            /\ Ge(x.games, I(8)))))

\* groupby(['position', 'season'])['efficiency_delta'].transform(z-score lambda)
norm_trajectory(r, df) ==
    ZScore(r.efficiency_delta,
           MapRows(LAMBDA x : x.efficiency_delta,
                   SelectSeq(df, LAMBDA x : x.position = r.position
                                            /\ x.season = r.season)))

add_trajectory_metrics(df0) ==
    LET df == SortValues(df0)
        RECURSIVE Deltas(_)
        Deltas(i) ==
            IF i > Len(df) THEN <<>>
            ELSE << [raw_per_touch_yards |-> raw_per_touch_yards(df[i]),
                     prev_efficiency |-> prev_efficiency(df, i),
                     efficiency_delta |-> efficiency_delta(df, i)] @@ df[i] >>
                 \o Deltas(i + 1)
        d1 == Deltas(1)
    IN  MapRows(LAMBDA r : [norm_trajectory |-> norm_trajectory(r, d1)] @@ r, d1)

---------------------------------------------------------------------------
(* calculate_composite_metrics: the row-wise columns, in source order *)

RequiredCols == {"team_carries", "team_rushing_yards", "team_rushing_tds",
                 "team_receptions", "team_receiving_yards", "team_receiving_tds",
                 "team_attempts"}

\* (variant) a required_cols list that lacks its last entry, team_attempts
missing_cols_short(cols) == {c \in RequiredCols \ {"team_attempts"} : c \notin cols}

\* [col for col in required_cols if col not in df.columns]
missing_cols(cols) == {c \in RequiredCols : c \notin cols}

\* df[df["games"] >= 8]
GamesFloor == 8

\* (variant) the table without the games filter
games_unfiltered(df) == df

\* df[df["games"] >= 8]: a null games compares False
games_filter(df) == SelectSeq(df, LAMBDA r : Ge(r.games, I(GamesFloor)))

get_age_multiplier(r) ==
    IF IsNa(r.season_age) THEN One
    ELSE IF (r.position = "RB" /\ Le(I(24), r.season_age) /\ Le(r.season_age, I(26)))
            \/ (r.position \in {"WR", "TE"} /\ Le(I(26), r.season_age)
                /\ Le(r.season_age, I(28)))
         THEN Q(12, 10)
    ELSE IF Le(r.season_age, I(30)) THEN One
    ELSE Q(85, 100)

age_adjusted_fpg(r) == Mul(r.fantasy_points_per_game, get_age_multiplier(r))

contract_year_boost(r) ==
    Mul(AsInt(FillNa(r.is_contract_year, Zero)), r.fantasy_points_per_game)

designed_rush_share(r) ==
    Where(Gt(FillNa(r.carries, Zero), Zero),
          Div(FillNa(r.rpo_rush_att, Zero), r.carries), Zero)

scramble_rush_share(r) ==
    Where(Gt(FillNa(r.carries, Zero), Zero),
          Div(FillNa(r.scrambles, Zero), r.carries), Zero)

dual_threat_score(r) ==
    Mul(Add(designed_rush_share(r), scramble_rush_share(r)),
        FillNa(r.scramble_yards_per_attempt, Zero))

pressure_resilience(r) ==
    Where(Gt(FillNa(r.pressure_pct, Zero), Zero),
          Div(FillNa(r.passing_epa, Zero), Mul(FillNa(r.attempts, One), r.pressure_pct)),
          Zero)

true_passing_talent(r) ==
    Add(Add(Add(Mul(FillNa(r.on_tgt_pct, Zero), Q(4, 10)),
                Mul(Sub(One, FillNa(r.bad_throw_pct, Zero)), Q(3, 10))),
            Mul(Sub(One, FillNa(r.is_interception_worthy, Zero)), Q(2, 10))),
        Mul(Div(FillNa(r.intended_air_yards_per_pass_attempt, Zero), I(10)), Q(1, 10)))

total_touch_share(r) ==
    Where(Gt(Add(r.team_carries, r.team_receptions), Zero),
          Div(Add(FillNa(r.carries, Zero), FillNa(r.receptions, Zero)),
              Add(r.team_carries, r.team_receptions)),
          Zero)

contact_balance(r) ==
    Where(Gt(FillNa(r.rush_ybc_att, Zero), Zero),
          Div(FillNa(r.rush_yac_att, Zero), r.rush_ybc_att), Zero)

rb_elusiveness_index(r) ==
    Where(Gt(FillNa(r.carries, Zero), Zero),
          Div(FillNa(r.rush_brk_tkl, Zero), r.carries), Zero)

rb_drive_dependency(r) ==
    Where(Gt(FillNa(r.carries, Zero), Zero),
          Div(FillNa(r.rush_x1d, Zero), r.carries), Zero)

receiving_back_score(r) ==
    Add(Add(Mul(FillNa(r.target_share, Zero), I(2)),
            Div(FillNa(r.rec_yac_r, Zero), I(10))),
        Div(FillNa(r.receptions, Zero), Replace(r.games, Zero, One)))

rb_complete_game(r) ==
    Add(Add(Add(Mul(total_touch_share(r), I(3)),
                Mul(rb_elusiveness_index(r), I(10))),
            Mul(receiving_back_score(r), Q(5, 10))),
        Div(Add(FillNa(r.rushing_tds, Zero), FillNa(r.receiving_tds, Zero)),
            Replace(r.games, Zero, One)))

weighted_touches(r) ==
    Add(Mul(FillNa(r.targets, Zero), Q(28, 10)), FillNa(r.carries, Zero))

workhorse_score(r) ==
    Where(Gt(r.games, Zero), Div(weighted_touches(r), r.games), Zero)

\* first assignment of df['yptmpa'] (line 189)
yptmpa_first(r) ==
    Where(Gt(FillNa(r.team_attempts, Zero), Zero),
          Div(FillNa(r.receiving_yards, Zero), r.team_attempts), Zero)

separation_index(r) ==
    Where(Gt(FillNa(r.rec_adot, Zero), Zero),
          Div(FillNa(r.rec_ybc_r, Zero), r.rec_adot), Zero)

yac_creator(r) ==
    Where(Gt(Add(FillNa(r.rec_ybc_r, Zero), FillNa(r.rec_yac_r, Zero)), Zero),
          Div(FillNa(r.rec_yac_r, Zero),
              Add(FillNa(r.rec_ybc_r, Zero), FillNa(r.rec_yac_r, Zero))),
          Zero)

wr_elusiveness_index(r) ==
    Where(Gt(FillNa(r.receptions, Zero), Zero),
          Div(FillNa(r.rec_brk_tkl, Zero), r.receptions), Zero)

receiver_drive_dependency(r) ==
    Where(Gt(FillNa(r.receptions, Zero), Zero),
          Div(FillNa(r.rec_x1d, Zero), r.receptions), Zero)

target_value(r) ==
    Where(r.position = "RB",
          Where(Gt(weighted_touches(r), Zero),
                Div(r.fantasy_points_half_ppr, weighted_touches(r)), Zero),
          Where(Gt(r.targets, Zero),
                Div(r.fantasy_points_half_ppr, r.targets), Zero))

receiver_creation_adj(r) ==
    Where(Gt(FillNa(r.season_age, One), Zero),
          Div(Add(FillNa(r.rec_yac_r, Zero), Mul(FillNa(r.rec_brk_tkl, Zero), I(2))),
              r.season_age),
          Zero)

true_catch_rate(r) ==
    Where(Gt(FillNa(r.is_catchable_ball, Zero), Zero),
          Div(FillNa(r.receptions, Zero), r.is_catchable_ball), Zero)

drop_adjusted_target_value(r) ==
    Mul(target_value(r), Sub(One, FillNa(r.rec_drop_percent, Zero)))

\* the column is computed only if 'is_contested_ball' in df.columns, else it is 0
contested_catch_rate(r, cols) ==
    IF "is_contested_ball" \in cols
    THEN Where(Gt(AsInt(FillNa(r.is_contested_ball, Zero)), Zero),
               Div(FillNa(r.receptions, Zero), r.is_contested_ball), Zero)
    ELSE Zero

air_yards_conversion(r) ==
    Where(Gt(FillNa(r.receiving_air_yards, Zero), Zero),
          Div(FillNa(r.receiving_yards, Zero), r.receiving_air_yards), Zero)

air_yards_share(r) ==
    Where(Gt(r.team_attempts, Zero),
          Div(FillNa(r.receiving_air_yards, Zero), r.team_attempts), Zero)

wopr(r) ==
    Add(Mul(Q(15, 10), FillNa(r.target_share, Zero)), Mul(Q(7, 10), air_yards_share(r)))

rec_yards_share(r) ==
    Where(Gt(r.team_receiving_yards, Zero),
          Div(FillNa(r.receiving_yards, Zero), r.team_receiving_yards), Zero)

rec_td_share(r) ==
    Where(Gt(r.team_receiving_tds, Zero),
          Div(FillNa(r.receiving_tds, Zero), r.team_receiving_tds), Zero)

dominator_rating(r) == Div(Add(rec_yards_share(r), rec_td_share(r)), I(2))

\* (variant) the division without the np.where guard
yptmpa_unguarded(r) == Div(FillNa(r.receiving_yards, Zero), r.team_attempts)

\* second assignment of df['yptmpa'] (line 293): the one that survives
yptmpa(r) ==
    Where(Gt(r.team_attempts, Zero),
          Div(FillNa(r.receiving_yards, Zero), r.team_attempts), Zero)

\* (variant) the rewrite without replace(0, 1) on the denominators
raw_per_touch_yards_no_replace(r) ==
    Where(r.position = "RB",
          Div(r.rushing_yards, r.carries),
          Div(r.receiving_yards, r.targets))

\* the rewrite of df['raw_per_touch_yards'] in calculate_composite_metrics (lines
\* 396-400): the one that survives
raw_per_touch_yards_last(r) ==
    Where(r.position = "RB",
          Div(r.rushing_yards, Replace(r.carries, Zero, One)),
          Div(r.receiving_yards, Replace(r.targets, Zero, One)))

draft_capital_score(r) ==
    Where(NotNa(r.draft_round), Sub(I(8), Clip(r.draft_round, I(1), I(7))), Zero)

years_past_apex(r) ==
    Where(r.position = "RB",
          ClipLo(Sub(r.season_age, Q(245, 10)), Zero),
          ClipLo(Sub(r.season_age, Q(265, 10)), Zero))

raw_efficiency(r) ==
    Where(r.position = "RB", FillNa(r.rush_yac_att, Zero), FillNa(yptmpa(r), Zero))

air_yards_differential(r) ==
    Sub(FillNa(r.receiving_air_yards, Zero), FillNa(r.receiving_yards, Zero))

consistency_score(r) ==
    Where(Gt(r.games, I(8)),
          Div(r.fantasy_points_per_game, Replace(r.games, Zero, One)), Zero)

\* every row-wise column of calculate_composite_metrics, written onto the row
\* (draft_roi, a logarithm that no other column reads, is left out)
RowMetrics(r, cols) ==
    [age_prime_multiplier |-> get_age_multiplier(r),
     age_adjusted_fpg |-> age_adjusted_fpg(r),
     contract_year_boost |-> contract_year_boost(r),
     designed_rush_share |-> designed_rush_share(r),
     scramble_rush_share |-> scramble_rush_share(r),
     dual_threat_score |-> dual_threat_score(r),
     pressure_resilience |-> pressure_resilience(r),
     true_passing_talent |-> true_passing_talent(r),
     total_touch_share |-> total_touch_share(r),
     contact_balance |-> contact_balance(r),
     rb_elusiveness_index |-> rb_elusiveness_index(r),
     rb_drive_dependency |-> rb_drive_dependency(r),
     receiving_back_score |-> receiving_back_score(r),
     rb_complete_game |-> rb_complete_game(r),
     weighted_touches |-> weighted_touches(r),
     workhorse_score |-> workhorse_score(r),
     separation_index |-> separation_index(r),
     yac_creator |-> yac_creator(r),
     wr_elusiveness_index |-> wr_elusiveness_index(r),
     receiver_drive_dependency |-> receiver_drive_dependency(r),
     target_value |-> target_value(r),
     receiver_creation_adj |-> receiver_creation_adj(r),
     true_catch_rate |-> true_catch_rate(r),
     drop_adjusted_target_value |-> drop_adjusted_target_value(r),
     contested_catch_rate |-> contested_catch_rate(r, cols),
     air_yards_conversion |-> air_yards_conversion(r),
     air_yards_share |-> air_yards_share(r),
     wopr |-> wopr(r),
     rec_yards_share |-> rec_yards_share(r),
     rec_td_share |-> rec_td_share(r),
     dominator_rating |-> dominator_rating(r),
     yptmpa |-> yptmpa(r),
     draft_capital_score |-> draft_capital_score(r),
     years_past_apex |-> years_past_apex(r),
     raw_efficiency |-> raw_efficiency(r),
     raw_per_touch_yards |-> raw_per_touch_yards_last(r),
     air_yards_differential |-> air_yards_differential(r),
     consistency_score |-> consistency_score(r)] @@ r

---------------------------------------------------------------------------
(* calculate_composite_metrics: the columns computed per position group *)

SamePos(r, df) == SelectSeq(df, LAMBDA x : x.position = r.position)

\* df.groupby('position')[col].transform(z-score lambda), the cell of row r
norm_age_risk(r, df) ==
    ZScore(r.years_past_apex, MapRows(LAMBDA x : x.years_past_apex, SamePos(r, df)))

norm_youth_bonus(r) == ZScale(r.norm_age_risk, I(-1))

\* groupby('position')['fantasy_points_per_game'].transform(quantile(0.75))
arrival_threshold(r, df) ==
    Quantile(MapRows(LAMBDA x : x.fantasy_points_per_game, SamePos(r, df)), 3, 4)

breakout_multiplier(r) ==
    Where(Lt(r.fantasy_points_per_game, r.arrival_threshold), Q(12, 10), Q(7, 10))

norm_target_value(r, df) ==
    ZScore(r.target_value, MapRows(LAMBDA x : x.target_value, SamePos(r, df)))

norm_target_share(r, df) ==
    ZScore(r.target_share, MapRows(LAMBDA x : x.target_share, SamePos(r, df)))

norm_efficiency(r, df) ==
    ZScore(r.raw_efficiency, MapRows(LAMBDA x : x.raw_efficiency, SamePos(r, df)))

arrival_multiplier(r) ==
    Where(Lt(r.fantasy_points_per_game, r.arrival_threshold), Q(12, 10), Q(7, 10))

\* the terms of breakout_score and their weights, in the order of lines 366-370
breakout_terms ==
    << "draft_capital_score", "norm_youth_bonus", "norm_target_value", "norm_efficiency",
       "1 - norm_target_share.fillna(0)" >>
breakout_weights == << Q(15, 100), Q(20, 100), Q(25, 100), Q(25, 100), Q(15, 100) >>

\* the weighted sum of lines 365-370; 1 - norm_target_share.fillna(0) is two terms
breakout_sum(r) ==
    << ZNum(Mul(r.draft_capital_score, breakout_weights[1])),
       ZScale(r.norm_youth_bonus, breakout_weights[2]),
       ZScale(r.norm_target_value, breakout_weights[3]),
       ZScale(r.norm_efficiency, breakout_weights[4]),
       ZNum(breakout_weights[5]),
       ZScale(ZFillNa(r.norm_target_share, Zero), Neg(breakout_weights[5])) >>

\* the sum times breakout_multiplier (line 371), then *= arrival_multiplier (line 376)
breakout_score(r) ==
    SymScale(SymScale(breakout_sum(r), r.breakout_multiplier), r.arrival_multiplier)

\* groupby('position')['fantasy_points_per_game'].transform(quantile(0.60))
value_threshold(r, df) ==
    Quantile(MapRows(LAMBDA x : x.fantasy_points_per_game, SamePos(r, df)), 3, 5)

market_value_multiplier(r) ==
    Where(Ge(r.fantasy_points_per_game, r.value_threshold), Q(13, 10), Q(5, 10))

norm_ypa_decline(r, df) ==
    ZScoreDecline(r.raw_per_touch_yards,
                  MapRows(LAMBDA x : x.raw_per_touch_yards, SamePos(r, df)))

\* the terms of sell_high_score and their signed weights (lines 411-414)
sell_high_terms ==
    << "norm_age_risk", "norm_target_share", "norm_efficiency", "norm_trajectory" >>
sell_high_weights == << Q(20, 100), Q(25, 100), Q(-30, 100), Q(-25, 100) >>

sell_high_sum(r) ==
    << ZScale(r.norm_age_risk, sell_high_weights[1]),
       ZScale(r.norm_target_share, sell_high_weights[2]),
       ZScale(r.norm_efficiency, sell_high_weights[3]),
       ZScale(r.norm_trajectory, sell_high_weights[4]) >>

sell_high_score(r) == SymScale(sell_high_sum(r), r.market_value_multiplier)

\* the terms of buy_low_score and their weights (lines 426-430)
buy_low_terms ==
    << "(air_yards_differential / 100).clip(0, 5)", "norm_youth_bonus",
       "target_share.fillna(0) * 10", "draft_capital_score",
       "(1 / (fantasy_points_per_game + 0.1)).clip(0, 2)" >>
buy_low_weights == << Q(30, 100), Q(20, 100), Q(25, 100), Q(15, 100), Q(10, 100) >>

\* the weighted sum of lines 426-430
buy_low_sum(r) ==
    << ZNum(Mul(Clip(Div(r.air_yards_differential, I(100)), Zero, I(5)),
                buy_low_weights[1])),
       ZScale(r.norm_youth_bonus, buy_low_weights[2]),
       ZNum(Mul(Mul(FillNa(r.target_share, Zero), I(10)), buy_low_weights[3])),
       ZNum(Mul(r.draft_capital_score, buy_low_weights[4])),
       ZNum(Mul(Clip(Div(One, Add(r.fantasy_points_per_game, Q(1, 10))), Zero, I(2)),
                buy_low_weights[5])) >>

\* no multiplier is applied to the sum (line 425)
buy_low_score(r) == buy_low_sum(r)

\* the columns that read a whole position group of the table df
GroupMetrics(r, df) ==
    [norm_age_risk |-> norm_age_risk(r, df),
     arrival_threshold |-> arrival_threshold(r, df),
     norm_target_value |-> norm_target_value(r, df),
     norm_target_share |-> norm_target_share(r, df),
     norm_efficiency |-> norm_efficiency(r, df),
     value_threshold |-> value_threshold(r, df),
     norm_ypa_decline |-> norm_ypa_decline(r, df)] @@ r

\* the multipliers and the youth bonus, read off the group columns
GateMetrics(r) ==
    [norm_youth_bonus |-> norm_youth_bonus(r),
     breakout_multiplier |-> breakout_multiplier(r),
     arrival_multiplier |-> arrival_multiplier(r),
     market_value_multiplier |-> market_value_multiplier(r)] @@ r

ScoreMetrics(r) ==
    [breakout_score |-> breakout_score(r),
     sell_high_score |-> sell_high_score(r),
     buy_low_score |-> buy_low_score(r)] @@ r

\* the table calculate_composite_metrics returns when the validation passes
calculate_composite_metrics(df0, cols) ==
    LET df == games_filter(df0)
        d1 == MapRows(LAMBDA r : RowMetrics(r, cols), df)
    IN  MapRows(LAMBDA r : ScoreMetrics(GateMetrics(GroupMetrics(r, d1))), d1)

---------------------------------------------------------------------------
(* Inputs of the scoring pipeline: the tables load_all_data may read *)

Positions == {"QB", "RB", "WR", "TE"}
OptionalCols == {"is_contested_ball"}
AllCols == RequiredCols \cup OptionalCols

\* a fully populated player-season (a receiver with a rushing line as well)
DefaultRow ==
    [player_id |-> 1, season |-> 2024, position |-> "WR", games |-> I(16),
     rushing_yards |-> I(400), carries |-> I(100),
     receiving_yards |-> I(240), targets |-> I(30), receptions |-> I(20),
     rushing_tds |-> I(4), receiving_tds |-> I(2),
     attempts |-> I(100), passing_epa |-> I(10), pressure_pct |-> Q(1, 4),
     rpo_rush_att |-> I(5), scrambles |-> I(10), scramble_yards_per_attempt |-> I(6),
     on_tgt_pct |-> Q(3, 4), bad_throw_pct |-> Q(1, 5),
     is_interception_worthy |-> I(0), intended_air_yards_per_pass_attempt |-> I(8),
     team_carries |-> I(400), team_rushing_yards |-> I(1600), team_rushing_tds |-> I(10),
     team_receptions |-> I(300), team_receiving_yards |-> I(3000),
     team_receiving_tds |-> I(20), team_attempts |-> I(480),
     rush_ybc_att |-> I(2), rush_yac_att |-> I(2), rush_brk_tkl |-> I(10),
     rush_x1d |-> I(20),
     target_share |-> Q(1, 5), rec_yac_r |-> I(4), rec_ybc_r |-> I(6),
     rec_adot |-> I(8), rec_brk_tkl |-> I(4), rec_x1d |-> I(10),
     rec_drop_percent |-> Q(1, 10), receiving_air_yards |-> I(300),
     is_catchable_ball |-> I(25), is_contested_ball |-> I(5),
     fantasy_points_half_ppr |-> I(184), fantasy_points_per_game |-> Q(23, 2),
     season_age |-> I(24), draft_round |-> I(2), draft_pick_num |-> I(40),
     is_contract_year |-> I(0)]

Override(r, o) == [f \in DOMAIN r |-> IF f \in DOMAIN o THEN o[f] ELSE r[f]]

\* season lines of the multi-row tables: the two seasons of the trajectory
\* scenario (100 carries / 400 yards, then 80 / 240) ...
StarterLines ==
    { [games |-> I(16), carries |-> I(100), rushing_yards |-> I(400),
       targets |-> I(30), receiving_yards |-> I(240),
       fantasy_points_half_ppr |-> I(184), fantasy_points_per_game |-> Q(23, 2),
       season_age |-> I(24), target_share |-> Q(1, 5), rush_yac_att |-> I(2)],
      [games |-> I(8), carries |-> I(80), rushing_yards |-> I(240),
       targets |-> I(60), receiving_yards |-> I(360),
       fantasy_points_half_ppr |-> I(124), fantasy_points_per_game |-> Q(31, 2),
       season_age |-> I(28), target_share |-> Q(1, 10), rush_yac_att |-> I(1)] }

\* ... and a sparsely populated backup season below the games floor
BackupLines ==
    { [games |-> I(7), carries |-> I(0), rushing_yards |-> I(0),
       targets |-> I(0), receiving_yards |-> I(0),
       fantasy_points_half_ppr |-> I(0), fantasy_points_per_game |-> I(0),
       season_age |-> NaN, target_share |-> NaN, rush_yac_att |-> NaN] }

MaxPlayers == 2
Seasons == {2024, 2025}
\* players 1 and 2 share a position group, player 3 is in another
PositionOf(p) == IF p % 3 = 0 THEN "WR" ELSE "RB"

\* the rows one player can have: per season none or one line, in season order
RECURSIVE CareersOf(_, _, _)
CareersOf(p, ys, lines) ==
    IF ys = {} THEN {<<>>}
    ELSE LET y == CHOOSE a \in ys : \A b \in ys : a <= b
             later == CareersOf(p, ys \ {y}, lines)
         IN  later \cup
             { <<Override(DefaultRow, [player_id |-> p, season |-> y,
                                       position |-> PositionOf(p)] @@ l)>> \o c :
                 l \in lines, c \in later }

\* the tables of players p..MaxPlayers with at most n rows, sorted by key
MaxRows == 4
RECURSIVE SortedTables(_, _, _)
SortedTables(p, n, lines) ==
    IF p > MaxPlayers THEN {<<>>}
    ELSE UNION { { c \o t : t \in SortedTables(p + 1, n - Len(c), lines) } :
                   c \in {x \in CareersOf(p, Seasons, lines) : Len(x) <= n} }

Reverse(t) == [i \in 1..Len(t) |-> t[Len(t) + 1 - i]]
Rotate(t, j) == SubSeq(t, j + 1, Len(t)) \o SubSeq(t, 1, j)

\* the row orders a table is read in: its rotations and their reversals (for up
\* to three rows these are all its orders)
RowOrders(t) ==
    {t} \cup UNION { {Rotate(t, j), Reverse(Rotate(t, j))} : j \in 0..(Len(t) - 1) }

\* starter seasons in every such order; tables with backup seasons in key order
SeasonTables ==
    UNION { RowOrders(t) : t \in SortedTables(1, MaxRows, StarterLines) }
    \cup SortedTables(1, MaxRows, StarterLines \cup BackupLines)

\* a player whose previous row is two seasons back, at or below the games floor,
\* alone and next to the seasons of a second player of the same position
GapTables ==
    UNION { { <<Override(DefaultRow, [player_id |-> 1, season |-> 2023,
                                      position |-> PositionOf(1)] @@ l1),
                Override(DefaultRow, [player_id |-> 1, season |-> 2025,
                                      position |-> PositionOf(1)] @@ l2)>> \o t :
                t \in { <<>>,
                        <<Override(DefaultRow, [player_id |-> 2, season |-> 2025,
                                                position |-> PositionOf(2)] @@ l1)>>,
                        <<Override(DefaultRow, [player_id |-> 2, season |-> 2024,
                                                position |-> PositionOf(2)] @@ l2),
                          Override(DefaultRow, [player_id |-> 2, season |-> 2025,
                                                position |-> PositionOf(2)] @@ l1)>> } } :
              l1 \in StarterLines \cup BackupLines, l2 \in StarterLines }

\* one-row tables that put every combination of null, 0 and a positive value
\* into the cells one formula family reads
FieldGroups ==
    { {"rushing_yards", "carries", "receiving_yards", "targets"},
      {"carries", "rpo_rush_att", "scrambles"},
      {"carries", "rush_brk_tkl", "rush_x1d"},
      {"pressure_pct", "passing_epa", "attempts"},
      {"team_carries", "team_receptions", "carries", "receptions"},
      {"rush_ybc_att", "rush_yac_att", "games"},
      {"targets", "carries", "fantasy_points_half_ppr"},
      {"team_attempts", "receiving_yards", "receiving_air_yards"},
      {"rec_adot", "rec_ybc_r", "rec_yac_r"},
      {"receptions", "rec_brk_tkl", "rec_x1d"},
      {"receptions", "is_catchable_ball", "is_contested_ball"},
      {"team_receiving_yards", "team_receiving_tds", "receiving_yards", "receiving_tds"},
      {"season_age", "target_share", "rec_yac_r", "rec_brk_tkl"},
      {"season_age", "draft_round", "fantasy_points_per_game"} }

Vary(g) ==
    { [f \in DOMAIN DefaultRow |->
          IF f \in g THEN (CASE ch[f] = "null" -> NaN
                             [] ch[f] = "zero" -> Zero
                             [] OTHER -> DefaultRow[f])
          ELSE DefaultRow[f]] : ch \in [g -> {"null", "zero", "value"}] }

CellRows ==
    { [r EXCEPT !.position = p] : r \in UNION {Vary(g) : g \in FieldGroups},
                                  p \in Positions }

CellTables == { <<r>> : r \in CellRows }

\* tables whose column set lacks any of the validated or optional columns
ColumnTables == { <<DefaultRow>>, <<>> }

---------------------------------------------------------------------------
(* The scoring pipeline: load_all_data *)

RankingIdle ==
    /\ rpc = "idle"
    /\ all_data = <<>>
    /\ call = <<>>
    /\ ranked = <<>>
    /\ rerr = "none"

FusionIdle ==
    /\ fpc = "idle"
    /\ src = <<>>
    /\ pfr_kept = <<>>
    /\ df_pfr = <<>>
    /\ df_contracts = <<>>
    /\ final_df = <<>>
    /\ csv_written = FALSE
    /\ ferr = "none"

InitEngine ==
    /\ pc = "csv"
    /\ \/ adv_data \in SeasonTables \cup GapTables \cup CellTables /\ columns = AllCols
       \/ adv_data \in ColumnTables /\ columns \in SUBSET AllCols
    /\ full_data = <<>>
    /\ scored = <<>>
    /\ err = {}
    /\ FusionIdle
    /\ RankingIdle

\* (variant) the functions sort, filter and assign on the frame they are given
given_table_in_place(df, working) == working

\* the table a function was given, after the call: add_trajectory_metrics rebinds
\* df to the sorted frame and calculate_composite_metrics to a filtered .copy()
\* before any column is assigned
given_table(df, working) == df

\* full_data = add_trajectory_metrics(adv_data)
AddTrajectoryMetrics ==
    /\ pc = "csv"
    /\ full_data' = add_trajectory_metrics(adv_data)
    /\ adv_data' = given_table(adv_data, full_data')
    /\ pc' = "traj"
    /\ UNCHANGED <<columns, scored, err>>
    /\ UNCHANGED fusion_vars
    /\ UNCHANGED ranking_vars

\* adv_data = calculate_composite_metrics(full_data): the games filter, then the
\* validation of the team columns, which raises before any column is computed
CalculateCompositeMetrics ==
    /\ pc = "traj"
    /\ IF missing_cols(columns) # {}
       THEN /\ err' = missing_cols(columns)
            /\ pc' = "error"
            /\ UNCHANGED scored
            /\ UNCHANGED full_data
       ELSE /\ scored' = calculate_composite_metrics(full_data, columns)
            /\ full_data' = given_table(full_data, scored')
            /\ pc' = "scored"
            /\ UNCHANGED err
    /\ UNCHANGED <<adv_data, columns>>
    /\ UNCHANGED fusion_vars
    /\ UNCHANGED ranking_vars

MaxReloadRows == 2

\* the script runs again: load_all_data reads the same file and calls both
\* functions once more (followed here for tables of up to MaxReloadRows rows)
LoadAllDataAgain ==
    /\ pc = "scored"
    /\ Len(adv_data) <= MaxReloadRows
    /\ LET again == add_trajectory_metrics(adv_data)
       IN  /\ scored' = calculate_composite_metrics(again, columns)
           /\ full_data' = given_table(again, scored')
           /\ adv_data' = given_table(adv_data, again)
    /\ pc' = "reloaded"
    /\ UNCHANGED <<columns, err>>
    /\ UNCHANGED fusion_vars
    /\ UNCHANGED ranking_vars

NextEngine == AddTrajectoryMetrics \/ CalculateCompositeMetrics \/ LoadAllDataAgain

SpecEngine == InitEngine /\ [][NextEngine]_vars

---------------------------------------------------------------------------
(* Properties of the scoring pipeline *)

TrajDone == pc \in {"traj", "scored", "error", "reloaded"}

\* the rows of df in the same group as row i
Group(df, i, Same(_, _)) == {j \in 1..Len(df) : Same(df[i], df[j])}
SamePosition(a, b) == a.position = b.position
SamePositionSeason(a, b) == a.position = b.position /\ a.season = b.season

\* row i's group has exactly one member, and that member has a value
Singleton(df, i, Same(_, _), V(_)) ==
    Cardinality(Group(df, i, Same)) = 1 /\ NotNa(V(df[i]))

\* row i has a value and its group has two or more values, all of them equal
ZeroVariance(df, i, Same(_, _), V(_)) ==
    LET vals == {j \in Group(df, i, Same) : NotNa(V(df[j]))}
    IN  /\ i \in vals
        /\ Cardinality(vals) >= 2
        /\ \A j \in vals : V(df[j]) = V(df[i])

\* C1: in a group with exactly one member, the member's z-score is exactly 0
\* (not null), for norm_trajectory (by position x season) and for norm_age_risk,
\* norm_target_value, norm_target_share, norm_efficiency (by position)
C1_SingletonGroupIsZero ==
    /\ TrajDone =>
         \A i \in 1..Len(full_data) :
            Singleton(full_data, i, SamePositionSeason, LAMBDA r : r.efficiency_delta)
                => ZIsZero(full_data[i].norm_trajectory)
    /\ pc = "scored" =>
         \A i \in 1..Len(scored) :
            /\ Singleton(scored, i, SamePosition, LAMBDA r : r.years_past_apex)
                 => ZIsZero(scored[i].norm_age_risk)
            /\ Singleton(scored, i, SamePosition, LAMBDA r : r.target_value)
                 => ZIsZero(scored[i].norm_target_value)
            /\ Singleton(scored, i, SamePosition, LAMBDA r : r.target_share)
                 => ZIsZero(scored[i].norm_target_share)
            /\ Singleton(scored, i, SamePosition, LAMBDA r : r.raw_efficiency)
                 => ZIsZero(scored[i].norm_efficiency)

IsZeroOverOne(z) == z.dev = Zero /\ z.div2 = One

ZeroSafe(den, metric) == (Eq(den, Zero) => metric = Zero) /\ IsFinite(metric)

\* C3: every share/rate metric equals 0 whenever its denominator is zero and is
\* never NaN or infinite
C3_ZeroDenominatorIsZero ==
    /\ TrajDone =>
         \A i \in 1..Len(full_data) :
            LET r == full_data[i]
            IN  ZeroSafe(IF r.position = "RB" THEN r.carries ELSE r.targets,
                         r.raw_per_touch_yards)
    /\ pc = "scored" =>
         \A i \in 1..Len(scored) :
            LET r == scored[i]
            IN  /\ ZeroSafe(IF r.position = "RB" THEN r.carries ELSE r.targets,
                            r.raw_per_touch_yards)
                /\ ZeroSafe(r.carries, r.designed_rush_share)
                /\ ZeroSafe(r.carries, r.scramble_rush_share)
                /\ ZeroSafe(Mul(r.attempts, r.pressure_pct), r.pressure_resilience)
                /\ ZeroSafe(Add(r.team_carries, r.team_receptions), r.total_touch_share)
                /\ ZeroSafe(r.rush_ybc_att, r.contact_balance)
                /\ ZeroSafe(r.carries, r.rb_elusiveness_index)
                /\ ZeroSafe(r.carries, r.rb_drive_dependency)
                /\ ZeroSafe(r.games, r.workhorse_score)
                /\ ZeroSafe(r.team_attempts, r.yptmpa)
                /\ ZeroSafe(r.rec_adot, r.separation_index)
                /\ ZeroSafe(Add(r.rec_ybc_r, r.rec_yac_r), r.yac_creator)
                /\ ZeroSafe(r.receptions, r.wr_elusiveness_index)
                /\ ZeroSafe(r.receptions, r.receiver_drive_dependency)
                /\ ZeroSafe(IF r.position = "RB" THEN r.weighted_touches ELSE r.targets,
                            r.target_value)
                /\ ZeroSafe(r.is_catchable_ball, r.true_catch_rate)
                /\ ZeroSafe(r.is_contested_ball, r.contested_catch_rate)
                /\ ZeroSafe(r.receiving_air_yards, r.air_yards_conversion)
                /\ ZeroSafe(r.team_attempts, r.air_yards_share)
                /\ ZeroSafe(r.team_receiving_yards, r.rec_yards_share)
                /\ ZeroSafe(r.team_receiving_tds, r.rec_td_share)

\* the rows of the input table that belong to the player of r and precede r's season
Earlier(df, r) ==
    {j \in 1..Len(df) : df[j].player_id = r.player_id /\ df[j].season < r.season}

InputCells(r) == [f \in DOMAIN DefaultRow |-> r[f]]

\* C4: the result of add_trajectory_metrics holds the input rows in (player_id,
\* season) ascending order whatever their input order, and the efficiency_delta
\* of a row is its raw_per_touch_yards minus that of the same player's
\* immediately preceding season row, null for the player's earliest season
C4_DeltaFromSamePlayer ==
    TrajDone =>
      /\ Len(full_data) = Len(adv_data)
      /\ {InputCells(full_data[i]) : i \in 1..Len(full_data)}
            = {adv_data[i] : i \in 1..Len(adv_data)}
      /\ \A i \in 1..(Len(full_data) - 1) :
            \/ full_data[i].player_id < full_data[i + 1].player_id
            \/ /\ full_data[i].player_id = full_data[i + 1].player_id
               /\ full_data[i].season < full_data[i + 1].season
      /\ \A i \in 1..Len(full_data) :
            LET r == full_data[i]
                before == Earlier(adv_data, r)
            IN  IF before = {} THEN IsNa(r.efficiency_delta)
                ELSE LET j == CHOOSE a \in before :
                                 \A b \in before : adv_data[b].season <= adv_data[a].season
                     IN  r.efficiency_delta
                           = Sub(raw_per_touch_yards(r), raw_per_touch_yards(adv_data[j]))

\* two players read out of key order, the second of them with a prior season whose
\* rate differs from that of the row sorted just above its first season
C4_Witness ==
    /\ pc = "traj"
    /\ adv_data # SortValues(adv_data)
    /\ \E i, j \in 1..Len(full_data) :
          /\ i + 1 < j
          /\ full_data[i].player_id # full_data[j].player_id
          /\ NotNa(full_data[i].efficiency_delta)
          /\ NotNa(full_data[j].efficiency_delta)
          /\ full_data[i].raw_per_touch_yards # full_data[j - 1].raw_per_touch_yards

\* C5: when a team column is missing the call fails with an error naming exactly
\* the absent columns, computes and returns nothing and leaves its input as it
\* was; when all seven are present the validation does not fail
C5_MissingColumnsRaise ==
    /\ pc = "error" =>
          /\ err = RequiredCols \ columns
          /\ err # {}
          /\ scored = <<>>
          /\ full_data = add_trajectory_metrics(adv_data)
    /\ pc = "scored" => RequiredCols \subseteq columns /\ err = {}
    /\ pc \in {"csv", "traj"} => err = {} /\ scored = <<>>

\* the call failed on a table that lacks team_attempts and one more team column
C5_Witness ==
    /\ pc = "error"
    /\ "team_attempts" \in err
    /\ Cardinality(err) = 2
    /\ Len(full_data) > 0

SymDefined(s) == ~SymIsNa(s)

\* C10: a null numeric input is treated as 0, so every tier-2 composite and every
\* composite score of every returned row is a defined number
C10_NoNullDerivedMetric ==
    pc = "scored" =>
      \A i \in 1..Len(scored) :
         LET r == scored[i]
         IN  /\ NotNa(r.receiver_creation_adj)
             /\ NotNa(r.target_value)
             /\ NotNa(r.receiving_back_score)
             /\ NotNa(r.true_passing_talent)
             /\ SymDefined(r.breakout_score)
             /\ SymDefined(r.sell_high_score)
             /\ SymDefined(r.buy_low_score)

\* the cells of r under the columns the trajectory step delivered
TrajectoryCells(r) == [f \in DOMAIN full_data[1] |-> r[f]]

AtFloor(r) == r.games.k = "inf" \/ (r.games.k = "num" /\ r.games.n >= 8 * r.games.d)

\* C11: calculate_composite_metrics returns exactly the input rows with
\* games >= 8, in their order and with their input cells (rows with fewer or
\* null games are absent), and the input table still holds every row
C11_OnlyRowsAtFloor ==
    pc = "scored" =>
      /\ full_data = add_trajectory_metrics(adv_data)
      /\ MapRows(TrajectoryCells, scored) = SelectSeq(full_data, AtFloor)
      /\ \A i \in 1..Len(scored) : AtFloor(scored[i])

\* a table scored with a row below the floor next to a row at it
C11_Witness ==
    /\ pc = "scored"
    /\ \E i \in 1..Len(full_data) : ~AtFloor(full_data[i])
    /\ \E i \in 1..Len(scored) : scored[i].games = I(8)
    /\ Len(scored) < Len(full_data)

\* fantasy_points_per_game at the quantile pn/pd of the row's position group
GroupQuantile(r, pn, pd) ==
    Quantile(MapRows(LAMBDA x : x.fantasy_points_per_game, SamePos(r, scored)), pn, pd)

\* breakout_score is its weighted sum times 1.2 below the 75th percentile of the
\* position, times 0.7 otherwise
BreakoutGatedOnce(r) ==
    r.breakout_score =
        SymScale(breakout_sum(r),
                 IF Lt(r.fantasy_points_per_game, GroupQuantile(r, 3, 4))
                   THEN Q(12, 10) ELSE Q(7, 10))

\* sell_high_score is its weighted sum times 1.3 at or above the 60th percentile
\* of the position, times 0.5 otherwise
SellHighGatedOnce(r) ==
    r.sell_high_score =
        SymScale(sell_high_sum(r),
                 IF Ge(r.fantasy_points_per_game, GroupQuantile(r, 3, 5))
                   THEN Q(13, 10) ELSE Q(5, 10))

\* buy_low_score is its weighted sum times one of the quantile multipliers
BuyLowGated(r) ==
    \E m \in {r.breakout_multiplier, r.arrival_multiplier, r.market_value_multiplier} :
        r.buy_low_score = SymScale(buy_low_sum(r), m)

\* C19: each composite score is its weighted sum gated once by one categorical
\* multiplier read off a quantile of fantasy_points_per_game in the position
\* group: breakout x1.2 below the 75th percentile else x0.7, sell_high x1.3 at
\* or above the 60th percentile else x0.5, buy_low likewise gated
C19_GatedOnce ==
    pc = "scored" =>
      \A i \in 1..Len(scored) :
          /\ BreakoutGatedOnce(scored[i])
          /\ SellHighGatedOnce(scored[i])
          /\ BuyLowGated(scored[i])

\* the columns produced by a z-score within the position group (tier 3)
ZScoredCols ==
    {"norm_trajectory", "norm_age_risk", "norm_youth_bonus", "norm_target_value",
     "norm_target_share", "norm_efficiency", "norm_ypa_decline"}

AllZScored(terms) == \A i \in 1..Len(terms) : terms[i] \in ZScoredCols

\* C20: the weights of each of breakout_score, sell_high_score and
\* buy_low_score sum to 1.0, and every term is a tier-3 z-scored indicator
C20_WeightsSumToOne ==
    pc = "scored" =>
      /\ SumSeq(breakout_weights) = One /\ AllZScored(breakout_terms)
      /\ SumSeq(sell_high_weights) = One /\ AllZScored(sell_high_terms)
      /\ SumSeq(buy_low_weights) = One /\ AllZScored(buy_low_terms)

\* two z-terms with the same value: dev / sqrt(div2) on both sides
ZSame(a, b) ==
    IF ZIsNa(a) \/ ZIsNa(b) THEN ZIsNa(a) /\ ZIsNa(b)
    ELSE /\ Sign(a.dev) = Sign(b.dev)
         /\ Mul(Mul(a.dev, a.dev), b.div2) = Mul(Mul(b.dev, b.dev), a.div2)

SymSame(s, t) == Len(s) = Len(t) /\ \A i \in 1..Len(s) : ZSame(s[i], t[i])

\* the four pillars as documented under the sell-high table: 20% age cliff,
\* 25% market hype, 30% efficiency slide, 25% regression trigger
four_pillars(r) ==
    SymScale(<< ZScale(r.norm_age_risk, Q(20, 100)),
                ZScale(r.norm_target_share, Q(25, 100)),
                ZScale(r.norm_efficiency, Q(-30, 100)),
                ZScale(r.norm_ypa_decline, Q(25, 100)) >>,
             r.market_value_multiplier)

\* C21: sell_high_score is 20% norm_age_risk, 25% norm_target_share, 30% negated
\* norm_efficiency and 25% norm_ypa_decline (times the market multiplier), so a
\* higher norm_ypa_decline gives a higher score
C21_FourPillars ==
    pc = "scored" =>
      \A i \in 1..Len(scored) : SymSame(scored[i].sell_high_score, four_pillars(scored[i]))

C25_ZeroTeamAttempts ==
    /\ pc = "scored" =>
          \A i \in 1..Len(scored) :
             (scored[i].position = "WR" /\ scored[i].team_attempts = Zero) =>
                scored[i].yptmpa = Zero /\ scored[i].air_yards_share = Zero
    /\ pc = "error" => missing_cols(columns) # {}

\* a scored WR row with team_attempts = 0 and positive receiving_yards
C25_Witness ==
    /\ pc = "scored"
    /\ \E i \in 1..Len(scored) :
          /\ scored[i].position = "WR"
          /\ Ge(scored[i].games, I(8))
          /\ scored[i].team_attempts = Zero
          /\ Gt(scored[i].receiving_yards, Zero)
          /\ scored[i].yptmpa = Zero
          /\ scored[i].air_yards_share = Zero

\* the members of row i's group that have a value of V, when they have two or
\* more distinct values: their z-scores Z share one divisor, their deviations sum
\* to 0 (mean 0) and the sum of squares over n - 1 is the squared divisor (std 1)
Standardized(df, i, Same(_, _), V(_), Z(_)) ==
    LET g == SelectSeq(df, LAMBDA x : Same(df[i], x) /\ NotNa(V(x)))
        devs == MapRows(LAMBDA x : Z(x).dev, g)
        squares == MapRows(LAMBDA x : Mul(Z(x).dev, Z(x).dev), g)
    IN  (Len(g) >= 2 /\ \E a, b \in 1..Len(g) : V(g[a]) # V(g[b])) =>
          /\ \A a \in 1..Len(g) : ~ZIsNa(Z(g[a])) /\ Z(g[a]).div2 = Z(g[1]).div2
          /\ SumSeq(devs) = Zero
          /\ Div(SumSeq(squares), I(Len(g) - 1)) = Z(g[1]).div2

\* C26: in every group with at least two distinct values, the z-scores of the
\* group's members have mean 0 and standard deviation 1: norm_trajectory within
\* (position, season) of the table it is computed on, the other z-scored
\* columns within the position of the scored table
C26_MeanZeroStdOne ==
    /\ TrajDone =>
         \A i \in 1..Len(full_data) :
            Standardized(full_data, i, SamePositionSeason,
                         LAMBDA r : r.efficiency_delta, LAMBDA r : r.norm_trajectory)
    /\ pc = "scored" =>
         \A i \in 1..Len(scored) :
            /\ Standardized(scored, i, SamePosition,
                            LAMBDA r : r.years_past_apex, LAMBDA r : r.norm_age_risk)
            /\ Standardized(scored, i, SamePosition,
                            LAMBDA r : r.years_past_apex, LAMBDA r : r.norm_youth_bonus)
            /\ Standardized(scored, i, SamePosition,
                            LAMBDA r : r.target_value, LAMBDA r : r.norm_target_value)
            /\ Standardized(scored, i, SamePosition,
                            LAMBDA r : r.target_share, LAMBDA r : r.norm_target_share)
            /\ Standardized(scored, i, SamePosition,
                            LAMBDA r : r.raw_efficiency, LAMBDA r : r.norm_efficiency)
            /\ Standardized(scored, i, SamePosition,
                            LAMBDA r : r.raw_per_touch_yards, LAMBDA r : r.norm_ypa_decline)

\* a scored position group of three rows with different target shares, and a
\* (position, season) group with two different year-over-year deltas
C26_Witness ==
    /\ pc = "scored"
    /\ \E i, j, k \in 1..Len(scored) :
          /\ i < j /\ j < k
          /\ scored[i].position = scored[j].position
          /\ scored[j].position = scored[k].position
          /\ NotNa(scored[i].target_share) /\ NotNa(scored[j].target_share)
          /\ scored[i].target_share # scored[j].target_share
          /\ ~ZIsZero(scored[i].norm_target_share)
    /\ \E i, j \in 1..Len(full_data) :
          /\ SamePositionSeason(full_data[i], full_data[j])
          /\ NotNa(full_data[i].efficiency_delta) /\ NotNa(full_data[j].efficiency_delta)
          /\ full_data[i].efficiency_delta # full_data[j].efficiency_delta

\* the rows of the trajectory table that the games filter keeps, in order
KeptRows == SelectSeq(full_data, AtFloor)

\* C27: the last write of a column written twice agrees with the earlier one:
\* raw_per_touch_yards as rewritten by calculate_composite_metrics equals what
\* add_trajectory_metrics wrote for the row, the second yptmpa equals the first
\* (null and zero team_attempts included), and efficiency_delta is still the
\* surviving raw_per_touch_yards minus prev_efficiency
C27_LastWriteAgrees ==
    pc = "scored" =>
      /\ Len(scored) = Len(KeptRows)
      /\ \A i \in 1..Len(scored) :
            /\ scored[i].raw_per_touch_yards = KeptRows[i].raw_per_touch_yards
            /\ scored[i].yptmpa = yptmpa_first(scored[i])
            /\ scored[i].efficiency_delta
                  = Sub(scored[i].raw_per_touch_yards, scored[i].prev_efficiency)
            /\ scored[i].norm_trajectory = KeptRows[i].norm_trajectory

\* a scored receiver row with no targets and positive receiving yards: both
\* writes divide by 1
C27_Witness ==
    /\ pc = "scored"
    /\ \E i \in 1..Len(scored) :
          /\ scored[i].position # "RB"
          /\ scored[i].targets = Zero
          /\ Gt(scored[i].receiving_yards, Zero)
          /\ scored[i].raw_per_touch_yards = scored[i].receiving_yards

\* the z-score of raw_per_touch_yards of row i within its position
PerTouchZScore(i) ==
    ZScore(scored[i].raw_per_touch_yards,
           MapRows(LAMBDA x : x.raw_per_touch_yards,
                   SelectSeq(scored, LAMBDA x : x.position = scored[i].position)))

\* C28: norm_ypa_decline is the negation of the z-score of raw_per_touch_yards
\* within the position, so a row with a strictly lower raw_per_touch_yards than
\* another row of its position never has a lower norm_ypa_decline; and
\* norm_youth_bonus = -norm_age_risk for every row
C28_DeclineInvertsSign ==
    pc = "scored" =>
      /\ \A i \in 1..Len(scored) :
            /\ ZSame(scored[i].norm_ypa_decline, ZScale(PerTouchZScore(i), I(-1)))
            /\ ZSame(scored[i].norm_youth_bonus, ZScale(scored[i].norm_age_risk, I(-1)))
      /\ \A i, j \in 1..Len(scored) :
            (/\ scored[i].position = scored[j].position
             /\ Lt(scored[i].raw_per_touch_yards, scored[j].raw_per_touch_yards)) =>
               /\ scored[i].norm_ypa_decline.div2 = scored[j].norm_ypa_decline.div2
               /\ ~Lt(scored[i].norm_ypa_decline.dev, scored[j].norm_ypa_decline.dev)

\* two scored rows of one position: the one with fewer yards per touch has the
\* higher decline score, and the older one the lower youth bonus
C28_Witness ==
    /\ pc = "scored"
    /\ \E i, j \in 1..Len(scored) :
          /\ scored[i].position = scored[j].position
          /\ Lt(scored[i].raw_per_touch_yards, scored[j].raw_per_touch_yards)
          /\ Gt(scored[i].norm_ypa_decline.dev, Zero)
          /\ Lt(scored[j].norm_ypa_decline.dev, Zero)
    /\ \E i, j \in 1..Len(scored) :
          /\ Gt(scored[i].norm_age_risk.dev, Zero)
          /\ Lt(scored[i].norm_youth_bonus.dev, Zero)
          /\ Gt(scored[j].norm_youth_bonus.dev, Zero)

\* the efficiency_delta values of the rows of df in the (position, season) of r
GroupDeltas(r, df) ==
    MapRows(LAMBDA x : x.efficiency_delta, SelectSeq(df, LAMBDA x : SamePositionSeason(x, r)))

\* C30: the trajectory values of a returned row are those computed on the
\* unfiltered table: prev_efficiency is the value of the player's preceding row
\* even when that row has games < 8 or is more than one season earlier, the
\* (position, season) group of norm_trajectory includes rows with games < 8, and
\* nothing is recomputed after the games filter
C30_TrajectoryBeforeFilter ==
    pc = "scored" =>
      \A i \in 1..Len(scored) :
         LET r == scored[i]
             before == Earlier(adv_data, r)
         IN  /\ IF before = {} THEN IsNa(r.prev_efficiency)
                ELSE LET j == CHOOSE a \in before :
                                 \A b \in before : adv_data[b].season <= adv_data[a].season
                     IN  r.prev_efficiency = raw_per_touch_yards(adv_data[j])
             /\ r.efficiency_delta = Sub(raw_per_touch_yards(r), r.prev_efficiency)
             /\ r.norm_trajectory = ZScore(r.efficiency_delta, GroupDeltas(r, full_data))

\* a returned row whose previous row is two seasons back and below the games
\* floor, and whose norm_trajectory, taken over a group with a row below the
\* floor, is not what the returned rows alone would give
C30_Witness ==
    /\ pc = "scored"
    /\ \E i \in 1..Len(scored), k, m \in 1..Len(full_data) :
          /\ ~AtFloor(full_data[k])
          /\ full_data[k].player_id = scored[i].player_id
          /\ full_data[k].season + 1 < scored[i].season
          /\ scored[i].prev_efficiency = full_data[k].raw_per_touch_yards
          /\ NotNa(scored[i].efficiency_delta)
          /\ ~AtFloor(full_data[m])
          /\ SamePositionSeason(full_data[m], scored[i])
          /\ NotNa(full_data[m].efficiency_delta)
          /\ ~ZIsNa(scored[i].norm_trajectory)
          /\ ~ZSame(scored[i].norm_trajectory,
                    ZScore(scored[i].efficiency_delta, GroupDeltas(scored[i], scored)))

---------------------------------------------------------------------------
(* Table algebra of the fusion pipeline (pandas merge / drop_duplicates)    *)
(*                                                                         *)
(* A fusion table is a record [cols, rows]: its column names and its rows. *)
(* pd.DataFrame() is the table with no column at all.  Identifiers are     *)
(* positive integers and NullId is a missing identifier; a team code is a  *)
(* sequence of characters and <<>> is a missing code; every other cell is  *)
(* a float cell, a date cell or NaN.                                       *)

NullId == 0
NullOf(c) ==
    IF c \in {"player_id", "pfr_id"} THEN NullId
    ELSE IF c = "team" THEN <<>>
    ELSE NaN

\* pd.DataFrame(): no rows and no columns
EmptyFrame == [cols |-> {}, rows |-> <<>>]

KeyEq(a, b, keys) == \A k \in keys : a[k] = b[k]

\* left.merge(right, on=keys, how='left'): the left rows in their order, each once
\* per matching right row in the right's order, or once with the right's columns
\* null when nothing matches
RECURSIVE LeftRows(_, _, _, _)
LeftRows(left, right, keys, rcols) ==
    IF left = <<>> THEN <<>>
    ELSE LET r == Head(left)
             m == SelectSeq(right, LAMBDA x : KeyEq(r, x, keys))
             new == IF m = <<>>
                    THEN << r @@ [c \in rcols \ keys |-> NullOf(c)] >>
                    ELSE [i \in 1..Len(m) |-> r @@ [c \in rcols \ keys |-> m[i][c]]]
         IN  new \o LeftRows(Tail(left), right, keys, rcols)

LeftMerge(left, right, keys) ==
    [cols |-> left.cols \cup right.cols,
     rows |-> LeftRows(left.rows, right.rows, keys, right.cols)]

\* a key column missing from either side makes merge raise KeyError
MergeRaises(left, right, keys) ==
    ~(keys \subseteq left.cols /\ keys \subseteq right.cols)

\* the (pfr_id, season) pairs of the rows, ascending
PairLt(a, b) == a[1] < b[1] \/ (a[1] = b[1] /\ a[2] < b[2])
RECURSIVE SortPairs(_)
SortPairs(S) ==
    IF S = {} THEN <<>>
    ELSE LET m == CHOOSE a \in S : \A b \in S \ {a} : PairLt(a, b)
         IN  <<m>> \o SortPairs(S \ {m})

PairsOf(rows) == {<<rows[i].pfr_id, rows[i].season>> : i \in 1..Len(rows)}

\* left.merge(right, on=['pfr_id', 'season'], how='outer'): the union of the keys
\* in ascending order; per key the left rows crossed with the right rows, or the
\* rows of the one side that has the key with the other side's columns null
RECURSIVE OuterRows(_, _, _, _, _)
OuterRows(ks, left, right, lcols, rcols) ==
    IF ks = <<>> THEN <<>>
    ELSE LET k == Head(ks)
             keys == {"pfr_id", "season"}
             here(x) == x.pfr_id = k[1] /\ x.season = k[2]
             l == SelectSeq(left, here)
             r == SelectSeq(right, here)
             new ==
               IF r = <<>>
               THEN [i \in 1..Len(l) |-> l[i] @@ [c \in rcols \ keys |-> NullOf(c)]]
               ELSE IF l = <<>>
               THEN [i \in 1..Len(r) |->
                        [c \in rcols |-> r[i][c]] @@ [c \in lcols \ keys |-> NullOf(c)]]
               ELSE [i \in 1..(Len(l) * Len(r)) |->
                        l[((i - 1) \div Len(r)) + 1]
                          @@ [c \in rcols \ keys |-> r[((i - 1) % Len(r)) + 1][c]]]
         IN  new \o OuterRows(Tail(ks), left, right, lcols, rcols)

OuterMerge(left, right) ==
    [cols |-> left.cols \cup right.cols,
     rows |-> OuterRows(SortPairs(PairsOf(left.rows) \cup PairsOf(right.rows)),
                        left.rows, right.rows, left.cols, right.cols)]

\* rows.drop_duplicates(subset=['player_id', 'season']): the first row of each key
\* (missing identifiers count as equal to each other)
RECURSIVE DropDuplicates(_, _)
DropDuplicates(rows, seen) ==
    IF rows = <<>> THEN <<>>
    ELSE LET k == <<Head(rows).player_id, Head(rows).season>>
         IN  IF k \in seen THEN DropDuplicates(Tail(rows), seen)
             ELSE <<Head(rows)>> \o DropDuplicates(Tail(rows), seen \cup {k})

\* rows.drop_duplicates(subset=['player_id', 'season'], keep='last')
DropDuplicatesKeepLast(rows) == Reverse(DropDuplicates(Reverse(rows), {}))

\* df[cols]: the rows cut down to the given columns
Project(rows, cols) == [i \in 1..Len(rows) |-> [c \in cols |-> rows[i][c]]]

\* df.rename(columns={old: new})
Rename(rows, old, new) ==
    [i \in 1..Len(rows) |->
        [c \in (DOMAIN rows[i] \ {old}) \cup {new} |->
            IF c = new THEN rows[i][old] ELSE rows[i][c]]]

---------------------------------------------------------------------------
(* The source loaders of nfl_info.py *)

StatTypes == <<"pass", "rush", "rec">>

\* the name of the team column as each PFR table delivers it
TeamCol(s) == IF s = "pass" THEN "team" ELSE "tm"
\* the charting value carried per stat type, before and after the prefix step
ValueCol(s) == IF s = "pass" THEN "pressure_pct" ELSE IF s = "rush" THEN "yac_att" ELSE "adot"
PrefixedCol(s) ==
    IF s = "pass" THEN "pressure_pct" ELSE IF s = "rush" THEN "rush_yac_att" ELSE "rec_adot"

\* str.contains(sub)
Contains(str, sub) ==
    \E i \in 1..(Len(str) - Len(sub) + 1) : SubSeq(str, i, i + Len(sub) - 1) = sub

\* astype(str): a missing team reads 'nan'
AsStr(team) == IF team = <<>> THEN <<"n", "a", "n">> ELSE team

\* temp_df['team'].astype(str).str.contains('TM', na=False)
is_total_row(r) == Contains(AsStr(r.team), <<"T", "M">>)

\* (variant) 'any' taken over the whole table instead of per (pfr_id, season) group
has_total_ungrouped(rows, r) ==
    \E i \in 1..Len(rows) : is_total_row(rows[i])

\* temp_df.groupby(['pfr_id', 'season'])['is_total_row'].transform('any')
has_total(rows, r) ==
    \E i \in 1..Len(rows) :
        rows[i].pfr_id = r.pfr_id /\ rows[i].season = r.season /\ is_total_row(rows[i])

\* temp_df[(has_total & is_total_row) | (~has_total)], after the team column was
\* given its standard name
collapse(s, raw) ==
    LET rows == Rename(raw, TeamCol(s), "team")
    IN  SelectSeq(rows, LAMBDA r : (has_total(rows, r) /\ is_total_row(r))
                                   \/ ~has_total(rows, r))

\* one stat type's table as it enters the iterative merge: collapsed, cut to the
\* requested columns, the value column prefixed for rush and rec
prepared(s, raw) ==
    [cols |-> {"pfr_id", "season", "team", PrefixedCol(s)},
     rows |-> Rename(Project(collapse(s, raw), {"pfr_id", "season", "team", ValueCol(s)}),
                     ValueCol(s), PrefixedCol(s))]

\* temp_df.drop(columns=['team'])
DropTeam(t) == [cols |-> t.cols \ {"team"}, rows |-> Project(t.rows, t.cols \ {"team"})]

\* the loop over the stat types: an empty table is skipped, the first non-empty
\* one starts combined_pfr, each later one is outer-merged on (pfr_id, season)
RECURSIVE combined_pfr(_, _, _)
combined_pfr(i, combined, pfr) ==
    IF i > Len(StatTypes) THEN combined
    ELSE LET s == StatTypes[i]
         IN  IF pfr[s] = <<>> THEN combined_pfr(i + 1, combined, pfr)
             ELSE IF combined.cols = {} THEN combined_pfr(i + 1, prepared(s, pfr[s]), pfr)
             ELSE combined_pfr(i + 1, OuterMerge(combined, DropTeam(prepared(s, pfr[s]))), pfr)

get_pfr_advstats_combined(source) ==
    LET combined == combined_pfr(1, EmptyFrame, source.pfr)
        ids == [cols |-> {"player_id", "pfr_id"}, rows |-> source.pfr_ids]
        joined == LeftMerge(combined, ids, {"pfr_id"})
    IN  IF combined.cols = {} THEN EmptyFrame
        ELSE [cols |-> joined.cols, rows |-> DropDuplicates(joined.rows, {})]

\* ftn_joined.groupby(['receiver_player_id', 'season']).agg('sum'), the receiver
\* renamed to player_id; one row per group, the groups in ascending order
get_ftn_stats(source) ==
    LET plays == source.ftn_joined
        groups == SortPairs({<<plays[i].receiver_player_id, plays[i].season>> :
                                i \in 1..Len(plays)})
        total(g, c) == SumSeq(MapRows(LAMBDA x : x[c],
                          SelectSeq(plays, LAMBDA x : x.receiver_player_id = g[1]
                                                      /\ x.season = g[2])))
    IN  [cols |-> {"player_id", "season", "is_catchable_ball", "is_contested_ball"},
         rows |-> [i \in 1..Len(groups) |->
                     [player_id |-> groups[i][1], season |-> groups[i][2],
                      is_catchable_ball |-> total(groups[i], "is_catchable_ball"),
                      is_contested_ball |-> total(groups[i], "is_contested_ball")]]]

\* draft_picks[position.isin(positions)][[...]].rename(...): every pick is kept
get_draft_data(source) ==
    LET picks == SelectSeq(source.draft_picks, LAMBDA x : x.position \in source.positions)
    IN  [cols |-> {"player_id", "draft_round", "draft_pick_num"},
         rows |-> [i \in 1..Len(picks) |->
                     [player_id |-> picks[i].gsis_id, draft_round |-> picks[i].round,
                      draft_pick_num |-> picks[i].pick]]]

\* one row per contract year; [] when int(float(.)) raises
expand_contract_years(row) ==
    IF ~IsFinite(row.year_signed) \/ ~IsFinite(row.years) THEN <<>>
    ELSE LET start == AsInt(row.year_signed).n
             total == AsInt(row.years).n
         IN  [j \in 1..total |->
                 [player_id |-> row.player_id, season |-> start + (j - 1),
                  apy |-> row.apy,
                  contract_years_remaining |-> I((total - 1) - (j - 1)),
                  is_contract_year |-> I(IF (total - 1) - (j - 1) = 0 THEN 1 ELSE 0)]]

RECURSIVE all_rows(_)
all_rows(contracts) ==
    IF contracts = <<>> THEN <<>>
    ELSE expand_contract_years(Head(contracts)) \o all_rows(Tail(contracts))

\* the contracts of the allowed positions that have years and year_signed, already
\* joined to the player ids; pd.DataFrame([]) has no columns, and drop_duplicates
\* hands an empty table back as it is
get_contract_data(source) ==
    LET contracts == SelectSeq(source.contracts,
                        LAMBDA x : x.position \in source.positions
                                   /\ NotNa(x.years) /\ NotNa(x.year_signed))
        rows == all_rows(contracts)
    IN  IF rows = <<>> THEN EmptyFrame
        ELSE [cols |-> {"player_id", "season", "apy", "contract_years_remaining",
                        "is_contract_year"},
              rows |-> DropDuplicatesKeepLast(rows)]

---------------------------------------------------------------------------
(* construct_intelligent_dataset *)

\* a date cell: year and month of a calendar date
Date(y, m) == [k |-> "date", n |-> y, d |-> m]

\* pd.to_datetime(x, errors='coerce'): NaT for a missing or unreadable date
to_datetime(b) == IF b.k = "date" THEN b ELSE NaN

\* (variant) the cutoff one month early: birth month >= 9
season_age_from_september(r) ==
    LET b == to_datetime(r.birth_date)
    IN  IF b.k # "date" THEN NaN
        ELSE I((r.season - b.n) - (IF b.d >= 9 THEN 1 ELSE 0))

\* season - birth year, one less when the birth month is after September; null
\* without a birth date
season_age(r) ==
    LET b == to_datetime(r.birth_date)
    IN  IF b.k # "date" THEN NaN
        ELSE I((r.season - b.n) - (IF b.d > 9 THEN 1 ELSE 0))

\* df_stats[df_stats['position'].isin(positions)]
df_stats(source) ==
    [cols |-> {"player_id", "season", "position", "recent_team"},
     rows |-> SelectSeq(source.stats, LAMBDA x : x.position \in source.positions)]

\* get_team_stats: team renamed to recent_team, the metric prefixed with team_
get_team_stats(source) ==
    [cols |-> {"recent_team", "season", "team_attempts"},
     rows |-> Rename(Rename(source.team_stats, "team", "recent_team"),
                     "attempts", "team_attempts")]

roster_info(source) ==
    [cols |-> {"player_id", "season", "birth_date", "years_exp"},
     rows |-> Rename(source.rosters, "gsis_id", "player_id")]

\* the table after the team, PFR, FTN, draft and roster joins
joined_to_roster(source, pfr) ==
    LET m1 == LeftMerge(df_stats(source), get_team_stats(source), {"recent_team", "season"})
        m2 == LeftMerge(m1, pfr, {"player_id", "season"})
        m3 == LeftMerge(m2, get_ftn_stats(source), {"player_id", "season"})
        m4 == LeftMerge(m3, get_draft_data(source), {"player_id"})
    IN  LeftMerge(m4, roster_info(source), {"player_id", "season"})

\* the PFR join or the contract join finds no key column in its right-hand table
merge_raises(source, pfr, contracts) ==
    \/ MergeRaises(df_stats(source), pfr, {"player_id", "season"})
    \/ MergeRaises(df_stats(source), contracts, {"player_id", "season"})

\* the fused table: all joins, birth_date read as a date, season_age, the sort
fused(source, pfr, contracts) ==
    LET m == LeftMerge(joined_to_roster(source, pfr), contracts, {"player_id", "season"})
    IN  SortValues(MapRows(LAMBDA r : [birth_date |-> to_datetime(r.birth_date),
                                      season_age |-> season_age(r)] @@ r,
                           m.rows))

---------------------------------------------------------------------------
(* Source contents the fusion is run on *)

NYG == <<"N", "Y", "G">>
DAL == <<"D", "A", "L">>
SF == <<"S", "F">>
TM2 == <<"2", "T", "M">>

AllPositions == {"QB", "RB", "WR", "TE"}

\* the base player-stats table: one row per (player_id, season), position by
\* position as get_player_stats concatenates it
BaseStats ==
    << [player_id |-> 2, season |-> 2024, position |-> "RB", recent_team |-> NYG],
       [player_id |-> 1, season |-> 2025, position |-> "WR", recent_team |-> DAL],
       [player_id |-> 1, season |-> 2024, position |-> "WR", recent_team |-> SF] >>

MaxSourceRows == 2
MaxPfrRows == 3

\* every table of at most n rows drawn from the pool, rows may repeat
SeqsUpTo(pool, n) == UNION {[1..k -> pool] : k \in 0..n}

TeamPool ==
    { [season |-> 2024, team |-> NYG, attempts |-> I(500)],
      [season |-> 2024, team |-> SF, attempts |-> Zero],
      [season |-> 2025, team |-> DAL, attempts |-> I(450)] }

PassPool ==
    { [pfr_id |-> 1, season |-> 2024, team |-> TM2, pressure_pct |-> I(30)],
      [pfr_id |-> 1, season |-> 2024, team |-> SF, pressure_pct |-> I(25)],
      [pfr_id |-> 2, season |-> 2024, team |-> NYG, pressure_pct |-> I(20)] }

RushPool ==
    { [pfr_id |-> 1, season |-> 2024, tm |-> SF, yac_att |-> I(2)],
      [pfr_id |-> 1, season |-> 2024, tm |-> TM2, yac_att |-> I(3)],
      [pfr_id |-> 2, season |-> 2024, tm |-> NYG, yac_att |-> One] }

RecTables ==
    { <<>>,
      << [pfr_id |-> 1, season |-> 2024, tm |-> SF, adot |-> I(8)] >>,
      << [pfr_id |-> 2, season |-> 2025, tm |-> <<>>, adot |-> I(9)] >> }

\* the id crosswalk of load_players, with and without an entry for pfr_id 2
Crosswalks ==
    { << [player_id |-> 1, pfr_id |-> 1], [player_id |-> 2, pfr_id |-> 2] >>,
      << [player_id |-> 1, pfr_id |-> 1] >> }

PlayPool ==
    { [receiver_player_id |-> 1, season |-> 2024,
       is_catchable_ball |-> One, is_contested_ball |-> Zero],
      [receiver_player_id |-> 1, season |-> 2024,
       is_catchable_ball |-> One, is_contested_ball |-> One],
      [receiver_player_id |-> 2, season |-> 2024,
       is_catchable_ball |-> Zero, is_contested_ball |-> Zero] }

PickPool ==
    { [gsis_id |-> 1, position |-> "WR", round |-> One, pick |-> I(5)],
      [gsis_id |-> 1, position |-> "WR", round |-> I(3), pick |-> I(70)],
      [gsis_id |-> 2, position |-> "RB", round |-> I(2), pick |-> I(40)] }

RosterPool ==
    { [gsis_id |-> 1, season |-> 2024, birth_date |-> Date(2000, 10), years_exp |-> I(2)],
      [gsis_id |-> 1, season |-> 2024, birth_date |-> Date(2000, 9), years_exp |-> I(2)],
      [gsis_id |-> 2, season |-> 2024, birth_date |-> Date(1998, 3), years_exp |-> I(4)],
      [gsis_id |-> 1, season |-> 2025, birth_date |-> NaN, years_exp |-> I(3)] }

ContractPool ==
    { [player_id |-> 1, position |-> "WR", year_signed |-> I(2024), years |-> I(2),
       apy |-> I(5)],
      [player_id |-> 1, position |-> "WR", year_signed |-> I(2025), years |-> One,
       apy |-> I(9)],
      [player_id |-> 2, position |-> "RB", year_signed |-> I(2023), years |-> I(2),
       apy |-> I(3)],
      [player_id |-> 2, position |-> "RB", year_signed |-> I(2024), years |-> NaN,
       apy |-> One] }

\* sources in which every secondary table has a row or two and none repeats a key
DefaultSource ==
    [positions |-> AllPositions,
     stats |-> BaseStats,
     team_stats |-> << [season |-> 2024, team |-> NYG, attempts |-> I(500)] >>,
     pfr |-> [pass |-> << [pfr_id |-> 1, season |-> 2024, team |-> TM2,
                           pressure_pct |-> I(30)] >>,
              rush |-> <<>>,
              rec |-> <<>>],
     pfr_ids |-> << [player_id |-> 1, pfr_id |-> 1], [player_id |-> 2, pfr_id |-> 2] >>,
     ftn_joined |-> <<>>,
     draft_picks |-> << [gsis_id |-> 1, position |-> "WR", round |-> One, pick |-> I(5)] >>,
     rosters |-> << [gsis_id |-> 1, season |-> 2024, birth_date |-> Date(2000, 10),
                     years_exp |-> I(2)] >>,
     contracts |-> << [player_id |-> 1, position |-> "WR", year_signed |-> I(2024),
                       years |-> I(2), apy |-> I(5)] >>]

\* the default sources with one of them replaced by every table of the bound, and
\* the position allow-list narrowed for the two loaders that filter by it
FusionSources ==
    {[DefaultSource EXCEPT !.team_stats = t] : t \in SeqsUpTo(TeamPool, MaxSourceRows)}
    \cup {[DefaultSource EXCEPT !.ftn_joined = t] : t \in SeqsUpTo(PlayPool, MaxSourceRows)}
    \cup {[DefaultSource EXCEPT !.rosters = t] : t \in SeqsUpTo(RosterPool, MaxSourceRows)}
    \cup {[DefaultSource EXCEPT !.draft_picks = t, !.positions = a] :
             t \in SeqsUpTo(PickPool, MaxSourceRows), a \in {AllPositions, {"WR"}}}
    \cup {[DefaultSource EXCEPT !.contracts = t, !.positions = a] :
             t \in SeqsUpTo(ContractPool, MaxSourceRows), a \in {AllPositions, {"WR"}}}
    \cup {[DefaultSource EXCEPT !.pfr = [pass |-> a, rush |-> b, rec |-> c],
                                !.pfr_ids = x] :
             a \in SeqsUpTo(PassPool, MaxPfrRows), b \in SeqsUpTo(RushPool, MaxSourceRows),
             c \in RecTables, x \in Crosswalks}

---------------------------------------------------------------------------
(* The fusion pipeline: construct_intelligent_dataset *)

EngineIdle ==
    /\ pc = "idle"
    /\ adv_data = <<>>
    /\ columns = {}
    /\ full_data = <<>>
    /\ scored = <<>>
    /\ err = {}

InitFusion ==
    /\ fpc = "start"
    /\ src \in FusionSources
    /\ pfr_kept = [s \in {"pass", "rush", "rec"} |-> <<>>]
    /\ df_pfr = EmptyFrame
    /\ df_contracts = EmptyFrame
    /\ final_df = <<>>
    /\ csv_written = FALSE
    /\ ferr = "none"
    /\ EngineIdle
    /\ RankingIdle

\* df_pfr = get_pfr_advstats_combined(seasons); pfr_kept records what the collapse
\* step left of each stat type's table
GetPfrAdvstatsCombined ==
    /\ fpc = "start"
    /\ pfr_kept' = [s \in {"pass", "rush", "rec"} |->
                      IF src.pfr[s] = <<>> THEN <<>> ELSE collapse(s, src.pfr[s])]
    /\ df_pfr' = get_pfr_advstats_combined(src)
    /\ fpc' = "pfr"
    /\ UNCHANGED <<src, df_contracts, final_df, csv_written, ferr>>
    /\ UNCHANGED engine_vars
    /\ UNCHANGED ranking_vars

\* df_contracts = get_contract_data(positions)
GetContractData ==
    /\ fpc = "pfr"
    /\ df_contracts' = get_contract_data(src)
    /\ fpc' = "contracts"
    /\ UNCHANGED <<src, pfr_kept, df_pfr, final_df, csv_written, ferr>>
    /\ UNCHANGED engine_vars
    /\ UNCHANGED ranking_vars

\* the joins, season_age, the sort, the write of the snapshot file and the return;
\* a KeyError of a join leaves the function before anything is written
ConstructIntelligentDataset ==
    /\ fpc = "contracts"
    /\ IF merge_raises(src, df_pfr, df_contracts)
       THEN /\ ferr' = "KeyError"
            /\ fpc' = "error"
            /\ UNCHANGED <<final_df, csv_written>>
       ELSE /\ final_df' = fused(src, df_pfr, df_contracts)
            /\ csv_written' = TRUE
            /\ fpc' = "done"
            /\ UNCHANGED ferr
    /\ UNCHANGED <<src, pfr_kept, df_pfr, df_contracts>>
    /\ UNCHANGED engine_vars
    /\ UNCHANGED ranking_vars

NextFusion == GetPfrAdvstatsCombined \/ GetContractData \/ ConstructIntelligentDataset

SpecFusion == InitFusion /\ [][NextFusion]_vars

---------------------------------------------------------------------------
(* Properties of the fusion pipeline *)

FusionOver == fpc \in {"done", "error"}

HasDuplicateKeys(rows) ==
    \E i, j \in 1..Len(rows) :
        i < j /\ rows[i].player_id = rows[j].player_id /\ rows[i].season = rows[j].season

\* C6: the table returned by construct_intelligent_dataset has at most one row per
\* (player_id, season), whatever the secondary sources hold, the base table
\* having one row per (player_id, season)
C6_UniqueAfterFusion ==
    fpc = "done" /\ ~HasDuplicateKeys(src.stats) => ~HasDuplicateKeys(final_df)

\* C7: when the joins leave some (player_id, season) in more than one row, the
\* function raises and neither returns the table nor writes the snapshot file
C7_DuplicatesRaise ==
    (FusionOver /\ ~merge_raises(src, df_pfr, df_contracts)
                /\ HasDuplicateKeys(fused(src, df_pfr, df_contracts)))
        => (fpc = "error" /\ ferr # "none" /\ ~csv_written /\ final_df = <<>>)

CombinedTeams == {TM2, <<"3", "T", "M">>}
IsCombined(r) == r.team \in CombinedTeams
GroupRows(rows, k) == SelectSeq(rows, LAMBDA r : r.pfr_id = k[1] /\ r.season = k[2])
\* one stat type's source table, its team column under the standard name
RawPfr(s) == Rename(src.pfr[s], TeamCol(s), "team")
HasCombined(rows) == \E i \in 1..Len(rows) : IsCombined(rows[i])
Mapped(id) == \E i \in 1..Len(src.pfr_ids) : src.pfr_ids[i].pfr_id = id

C9_BaseRowsRetained ==
    FusionOver =>
      /\ ferr = "none"
      /\ \A i \in 1..Len(src.stats) :
            src.stats[i].position \in src.positions
              => \E j \in 1..Len(final_df) :
                    \A c \in DOMAIN src.stats[i] : final_df[j][c] = src.stats[i][c]

\* C23: season_age is season minus birth year, minus one more year exactly when
\* the birth month is after September; September or earlier subtracts nothing;
\* the adjustment is applied once per row
C23_SeasonAgeCutoff ==
    fpc = "done" =>
      \A i \in 1..Len(final_df) :
          LET r == final_df[i]
          IN  r.birth_date.k = "date" =>
                 /\ r.birth_date.d > 9 => r.season_age = I(r.season - r.birth_date.n - 1)
                 /\ r.birth_date.d <= 9 => r.season_age = I(r.season - r.birth_date.n)

\* the same player-season fused with an October birth date (age 23) and with a
\* September birth date (age 24)
C23_Witness ==
    /\ fpc = "done"
    /\ \E i, j \in 1..Len(final_df) :
          /\ final_df[i].birth_date = Date(2000, 10) /\ final_df[i].season_age = I(23)
          /\ final_df[j].birth_date = Date(2000, 9) /\ final_df[j].season_age = I(24)
          /\ final_df[i].season = 2024 /\ final_df[j].season = 2024

---------------------------------------------------------------------------
(* Ranking functions: sorting and truncation *)

Orderings(n) == {p \in [1..n -> 1..n] : \A i, j \in 1..n : i # j => p[i] # p[j]}

\* the sort key of a row: the integer columns as float cells
SortKey(r, col) == IF col \in {"Total Rank", "Pos Rank", "season"} THEN I(r[col]) ELSE r[col]

\* the rows are in the order of their keys, nulls last (na_position='last')
InOrder(rows, col, ascending) ==
    \A i \in 1..(Len(rows) - 1) :
        \/ IsNa(SortKey(rows[i + 1], col))
        \/ IF ascending THEN Le(SortKey(rows[i], col), SortKey(rows[i + 1], col))
                        ELSE Ge(SortKey(rows[i], col), SortKey(rows[i + 1], col))

\* df.sort_values(col, ascending=...): the default kind='quicksort' is not a
\* stable sort, so rows with equal keys may come out in any order; every
\* arrangement of the rows that is in key order is a possible outcome.  The
\* rows with a null key are appended in their input order.
sort_values(rows, col, ascending) ==
    {[i \in 1..Len(rows) |-> rows[p[i]]] :
        p \in {q \in Orderings(Len(rows)) :
                 /\ InOrder([i \in 1..Len(rows) |-> rows[q[i]]], col, ascending)
                 /\ \A i, j \in 1..Len(rows) :
                       (i < j /\ IsNa(SortKey(rows[q[i]], col))
                              /\ IsNa(SortKey(rows[q[j]], col))) => q[i] < q[j]}}

\* (variant) head without the cut
head_all(rows, n) == rows

\* df.head(n)
head(rows, n) == SubSeq(rows, 1, IF n < Len(rows) THEN n ELSE Len(rows))

\* the table the caller holds after the call: the callee assigns columns only to
\* copies (.copy()) and to frames it built itself, never to the caller's table
caller_table_shared(df, assigned) == assigned
caller_table(df, assigned) == df

---------------------------------------------------------------------------
(* get_dynasty_candidates *)

CandidateTypes == {"breakout", "sell_high", "buy_low"}

\* df[df['games'] >= min_games]
min_games_filter(rows, min_games) == SelectSeq(rows, LAMBDA r : Ge(r.games, I(min_games)))

\* (variant) the breakout filters without the removal of QBs
breakout_mask_any_position(r) ==
    /\ \/ Ge(r.targets, I(25))
       \/ Ge(r.carries, I(40))
    /\ Le(r.season_age, I(25))

\* position != 'QB', then the volume floor, then season_age <= 25
breakout_mask(r) ==
    /\ r.position # "QB"
    /\ \/ r.position \in {"WR", "TE"} /\ Ge(r.targets, I(25))
       \/ r.position = "RB" /\ Ge(r.carries, I(40))
    /\ Le(r.season_age, I(25))

\* (variant) the sell-high filters without the volume floor
sell_high_mask_no_floor(r) ==
    /\ \/ r.position = "RB" /\ Ge(r.season_age, I(26))
       \/ r.position \in {"WR", "TE"} /\ Ge(r.season_age, I(28))
    /\ r.position # "QB"

\* the age band, then the volume floor, then position != 'QB'
sell_high_mask(r) ==
    /\ \/ r.position = "RB" /\ Ge(r.season_age, I(26))
       \/ r.position \in {"WR", "TE"} /\ Ge(r.season_age, I(28))
    /\ \/ r.position \in {"WR", "TE"} /\ Ge(r.targets, I(60))
       \/ r.position = "RB" /\ Ge(r.carries, I(80))
    /\ r.position # "QB"

\* (variant) air_yards_differential >= 0
buy_low_mask_weak(r) == Ge(r.air_yards_differential, Zero)

\* df_filtered['air_yards_differential'] > 0
buy_low_mask(r) == Gt(r.air_yards_differential, Zero)

sort_col(candidate_type) ==
    IF candidate_type = "breakout" THEN "breakout_score"
    ELSE IF candidate_type = "sell_high" THEN "sell_high_score"
    ELSE "buy_low_score"

\* the columns a branch reads; a column the table lacks raises KeyError
candidate_columns(candidate_type) ==
    {"games"} \cup
    (IF candidate_type = "breakout"
       THEN {"position", "targets", "carries", "season_age", "breakout_score"}
     ELSE IF candidate_type = "sell_high"
       THEN {"position", "season_age", "targets", "carries", "sell_high_score"}
     ELSE IF candidate_type = "buy_low"
       THEN {"air_yards_differential", "buy_low_score"}
     ELSE {})

candidates_raise(df, c) == ~(candidate_columns(c.candidate_type) \subseteq df.cols)

\* df_filtered after the branch of candidate_type
df_filtered(df, c) ==
    LET at_games == min_games_filter(df.rows, c.min_games)
    IN  IF c.candidate_type = "breakout" THEN SelectSeq(at_games, breakout_mask)
        ELSE IF c.candidate_type = "sell_high" THEN SelectSeq(at_games, sell_high_mask)
        ELSE SelectSeq(at_games, buy_low_mask)

\* the tables the call can return
get_dynasty_candidates(df, c) ==
    IF c.candidate_type \notin CandidateTypes THEN {EmptyFrame}
    ELSE {[cols |-> df.cols, rows |-> head(t, c.top_n)] :
            t \in sort_values(df_filtered(df, c), sort_col(c.candidate_type), FALSE)}

---------------------------------------------------------------------------
(* calculate_rankings_for_all_seasons and the three views built on it *)

\* Series.unique(): the distinct values in order of first appearance
RECURSIVE unique(_, _)
unique(xs, seen) ==
    IF xs = <<>> THEN <<>>
    ELSE IF Head(xs) \in seen THEN unique(Tail(xs), seen)
    ELSE <<Head(xs)>> \o unique(Tail(xs), seen \cup {Head(xs)})

\* (variant) rank(ascending=False, method='max'): tied rows share the highest rank
rank_max(r, rows) ==
    Cardinality({i \in 1..Len(rows) :
                    Ge(rows[i].fantasy_points_per_game, r.fantasy_points_per_game)})

\* rank(ascending=False, method='min') of row r among the rows: one more than
\* the number of rows with a strictly greater value
rank_min(r, rows) ==
    1 + Cardinality({i \in 1..Len(rows) :
                        Gt(rows[i].fantasy_points_per_game, r.fantasy_points_per_game)})

\* one season's rows with Total Rank and Pos Rank
season_df(rows, season) ==
    LET of_season == SelectSeq(rows, LAMBDA r : r.season = season)
    IN  MapRows(LAMBDA r :
                  [c \in {"Total Rank", "Pos Rank"} |->
                      IF c = "Total Rank" THEN rank_min(r, of_season)
                      ELSE rank_min(r, SelectSeq(of_season,
                                                 LAMBDA x : x.position = r.position))]
                  @@ r,
                of_season)

RECURSIVE ranked_dfs(_, _)
ranked_dfs(rows, seasons) ==
    IF seasons = <<>> THEN <<>>
    ELSE season_df(rows, Head(seasons)) \o ranked_dfs(rows, Tail(seasons))

\* what the call raises: KeyError for a column the table lacks, ValueError when
\* a null rank is cast to int or when there is no season to concatenate
rankings_raise(df) ==
    IF ~({"season", "fantasy_points_per_game", "position"} \subseteq df.cols)
      THEN "KeyError"
    ELSE IF df.rows = <<>> THEN "ValueError"
    ELSE IF \E i \in 1..Len(df.rows) : IsNa(df.rows[i].fantasy_points_per_game)
      THEN "ValueError"
    ELSE "none"

calculate_rankings_for_all_seasons(df) ==
    [cols |-> df.cols \cup {"Total Rank", "Pos Rank"},
     rows |-> ranked_dfs(df.rows, unique(MapRows(LAMBDA r : r.season, df.rows), {}))]

\* full_df[full_df['season'] == season].sort_values('Total Rank')
get_current_season_rankings(df, season) ==
    LET full_df == calculate_rankings_for_all_seasons(df)
    IN  {[cols |-> full_df.cols, rows |-> t] :
            t \in sort_values(SelectSeq(full_df.rows, LAMBDA r : r.season = season),
                              "Total Rank", TRUE)}

\* season_df[season_df['position'] == position].sort_values('Pos Rank')
get_position_rankings(df, position, season) ==
    UNION {{[cols |-> sdf.cols, rows |-> t] :
               t \in sort_values(SelectSeq(sdf.rows, LAMBDA r : r.position = position),
                                 "Pos Rank", TRUE)} :
             sdf \in get_current_season_rankings(df, season)}

\* full_df[full_df['player_id'] == player_id].sort_values('season', ascending=False)
get_player_history_by_id(df, player_id) ==
    LET full_df == calculate_rankings_for_all_seasons(df)
    IN  {[cols |-> full_df.cols, rows |-> t] :
            t \in sort_values(SelectSeq(full_df.rows, LAMBDA r : r.player_id = player_id),
                              "season", FALSE)}

history_raise(df) ==
    IF rankings_raise(df) # "none" THEN rankings_raise(df)
    ELSE IF "player_id" \notin df.cols THEN "KeyError"
    ELSE "none"

---------------------------------------------------------------------------
(* generate_dynasty_rankings *)

RankedPositions == {"QB", "RB", "WR", "TE"}

key_metrics(position) ==
    IF position = "QB"
      THEN {"fantasy_points_per_game", "true_passing_talent", "dual_threat_score",
            "pressure_resilience", "season_age"}
    ELSE IF position = "RB"
      THEN {"fantasy_points_per_game", "total_touch_share", "rb_complete_game",
            "receiving_back_score", "target_value", "contact_balance",
            "workhorse_score", "season_age"}
    ELSE {"fantasy_points_per_game", "wopr", "target_value", "dominator_rating",
          "yptmpa", "separation_index", "yac_creator", "breakout_score", "season_age"}

\* the display columns that exist in the table
display_cols(df, position) ==
    ({"player_display_name", "recent_team", "season", "games", "draft_round"}
        \cup key_metrics(position)) \cap df.cols

\* KeyError: no position column, or a sort column that is not a display column
generate_raise(df, c) ==
    \/ "position" \notin df.cols
    \/ c.position \in RankedPositions /\ c.sort_by \notin display_cols(df, c.position)

\* ranked.insert(0, 'rank', range(1, len(ranked) + 1))
insert_rank(rows) == [i \in 1..Len(rows) |-> [rank |-> i] @@ rows[i]]

generate_dynasty_rankings(df, c) ==
    IF c.position \notin RankedPositions THEN {EmptyFrame}
    ELSE LET pos_df == SelectSeq(df.rows, LAMBDA r : r.position = c.position)
             cols == display_cols(df, c.position)
         IN  {[cols |-> cols \cup {"rank"}, rows |-> insert_rank(head(t, c.top_n))] :
                 t \in sort_values(Project(pos_df, cols), c.sort_by, FALSE)}

---------------------------------------------------------------------------
(* Tables and calls of the ranking functions *)

RankCols ==
    {"player_id", "season", "position", "games", "targets", "carries", "season_age",
     "fantasy_points_per_game", "air_yards_differential",
     "breakout_score", "sell_high_score", "buy_low_score"}

RankRow(id, y, pos, g, tgt, car, age, fpg, ayd, bs, shs, bls) ==
    [player_id |-> id, season |-> y, position |-> pos, games |-> g, targets |-> tgt,
     carries |-> car, season_age |-> age, fantasy_points_per_game |-> fpg,
     air_yards_differential |-> ayd,
     breakout_score |-> bs, sell_high_score |-> shs, buy_low_score |-> bls]

\* player-seasons on both sides of every floor and band, with tied and null scores
RankPool ==
    { RankRow(1, 2025, "WR", I(16), I(30), Zero, I(24), I(10), I(50), I(2), One, I(3)),
      RankRow(2, 2025, "WR", I(16), I(20), Zero, I(24), I(12), I(40), I(5), I(2), I(4)),
      RankRow(3, 2025, "QB", I(16), NaN, I(50), I(23), I(20), I(5), I(9), I(9), I(9)),
      RankRow(4, 2025, "RB", I(16), I(10), I(80), I(26), I(12), Zero, I(2), I(4), One),
      RankRow(5, 2025, "RB", I(8), I(5), I(40), I(25), I(6), I(-10), I(2), NaN, I(2)),
      RankRow(6, 2024, "TE", I(7), I(60), Zero, I(28), I(8), I(20), I(7), I(6), I(5)),
      RankRow(1, 2024, "WR", I(12), I(60), Zero, I(28), I(10), I(-20), NaN, I(4), Zero),
      RankRow(7, 2025, "TE", I(10), I(25), NaN, NaN, I(6), I(10), I(3), I(2), I(3)),
      RankRow(8, 2025, "WR", I(16), I(40), Zero, I(22), NaN, I(30), NaN, Zero, NaN),
      RankRow(4, 2024, "RB", I(16), I(30), I(60), I(27), I(9), Zero, One, I(8), Zero) }

MaxRankRows == 3

\* the tables of up to MaxRankRows different player-seasons, in every order
RankTables ==
    {[cols |-> RankCols, rows |-> t] :
        t \in {x \in SeqsUpTo(RankPool, MaxRankRows) :
                  \A i, j \in 1..Len(x) : i # j => x[i] # x[j]}}

\* one table without one of its columns, and the table with no column at all
ShortTables ==
    {[cols |-> RankCols \ {c},
      rows |-> Project(<< RankRow(1, 2025, "WR", I(16), I(30), Zero, I(24), I(10),
                                  I(50), I(2), One, I(3)),
                          RankRow(4, 2025, "RB", I(16), I(10), I(80), I(26), I(12),
                                  Zero, I(2), I(4), One) >>,
                       RankCols \ {c})] : c \in RankCols}
    \cup {EmptyFrame}

TopNs == {1, 2, 30}

\* the default min_games with every top_n, a higher min_games with the default top_n
CandidateCalls ==
    {[fn |-> "get_dynasty_candidates", candidate_type |-> t, min_games |-> 8, top_n |-> n] :
        t \in CandidateTypes \cup {"waiver"}, n \in TopNs}
    \cup
    {[fn |-> "get_dynasty_candidates", candidate_type |-> t, min_games |-> 12, top_n |-> 30] :
        t \in CandidateTypes}

\* the default sort_by and top_n, and one other sort column with a cut at 1
GenerateCalls ==
    {[fn |-> "generate_dynasty_rankings", position |-> q, sort_by |-> "breakout_score",
      top_n |-> 50] : q \in RankedPositions \cup {"K"}}
    \cup
    {[fn |-> "generate_dynasty_rankings", position |-> q,
      sort_by |-> "fantasy_points_per_game", top_n |-> 1] : q \in RankedPositions}

---------------------------------------------------------------------------
(* The ranking calls the rankings tab makes on the scored table *)

InitRanking ==
    /\ rpc = "ready"
    /\ all_data \in RankTables \cup ShortTables
    /\ call = [fn |-> "none"]
    /\ ranked = EmptyFrame
    /\ rerr = "none"
    /\ EngineIdle
    /\ FusionIdle

\* the call raised e: nothing is returned
Raised(c, e) ==
    /\ call' = c
    /\ rerr' = e
    /\ rpc' = "raised"
    /\ all_data' = caller_table(all_data, all_data)
    /\ UNCHANGED ranked

\* the call returned out; assigned is the callee's working table after its
\* column assignments
Returned(c, out, assigned) ==
    /\ call' = c
    /\ ranked' = out
    /\ rpc' = "returned"
    /\ all_data' = caller_table(all_data, assigned)
    /\ UNCHANGED rerr

GetDynastyCandidates ==
    /\ rpc = "ready"
    /\ \E c \in CandidateCalls :
          IF candidates_raise(all_data, c) THEN Raised(c, "KeyError")
          ELSE \E out \in get_dynasty_candidates(all_data, c) : Returned(c, out, all_data)
    /\ UNCHANGED <<engine_vars, fusion_vars>>

GenerateDynastyRankings ==
    /\ rpc = "ready"
    /\ \E c \in GenerateCalls :
          IF generate_raise(all_data, c) THEN Raised(c, "KeyError")
          ELSE \E out \in generate_dynasty_rankings(all_data, c) : Returned(c, out, all_data)
    /\ UNCHANGED <<engine_vars, fusion_vars>>

GetCurrentSeasonRankings ==
    /\ rpc = "ready"
    /\ LET c == [fn |-> "get_current_season_rankings", season |-> 2025]
       IN  IF rankings_raise(all_data) # "none" THEN Raised(c, rankings_raise(all_data))
           ELSE \E out \in get_current_season_rankings(all_data, c.season) :
                   Returned(c, out, calculate_rankings_for_all_seasons(all_data))
    /\ UNCHANGED <<engine_vars, fusion_vars>>

GetPositionRankings ==
    /\ rpc = "ready"
    /\ \E q \in {"WR", "RB"} :
          LET c == [fn |-> "get_position_rankings", position |-> q, season |-> 2025]
          IN  IF rankings_raise(all_data) # "none" THEN Raised(c, rankings_raise(all_data))
              ELSE \E out \in get_position_rankings(all_data, q, c.season) :
                      Returned(c, out, calculate_rankings_for_all_seasons(all_data))
    /\ UNCHANGED <<engine_vars, fusion_vars>>

GetPlayerHistoryById ==
    /\ rpc = "ready"
    /\ \E id \in {1, 2} :
          LET c == [fn |-> "get_player_history_by_id", player_id |-> id]
          IN  IF history_raise(all_data) # "none" THEN Raised(c, history_raise(all_data))
              ELSE \E out \in get_player_history_by_id(all_data, id) :
                      Returned(c, out, calculate_rankings_for_all_seasons(all_data))
    /\ UNCHANGED <<engine_vars, fusion_vars>>

NextRanking ==
    \/ GetDynastyCandidates
    \/ GenerateDynastyRankings
    \/ GetCurrentSeasonRankings
    \/ GetPositionRankings
    \/ GetPlayerHistoryById

SpecRanking == InitRanking /\ [][NextRanking]_vars

---------------------------------------------------------------------------
(* Properties of get_dynasty_candidates *)

RowSet(rows) == {rows[i] : i \in 1..Len(rows)}

CandidatesReturned(candidate_type) ==
    /\ rpc = "returned"
    /\ call.fn = "get_dynasty_candidates"
    /\ call.candidate_type = candidate_type

\* the rows of the input that satisfy a category's conditions
Eligible(E(_)) == SelectSeq(all_data.rows, LAMBDA r : Ge(r.games, I(call.min_games)) /\ E(r))

\* only eligible rows are returned, and all of them when they fit in top_n
OnlyEligible(E(_)) ==
    /\ RowSet(ranked.rows) \subseteq RowSet(Eligible(E))
    /\ Len(Eligible(E)) <= call.top_n =>
          /\ RowSet(ranked.rows) = RowSet(Eligible(E))
          /\ Len(ranked.rows) = Len(Eligible(E))

BreakoutEligible(r) ==
    /\ r.position # "QB"
    /\ \/ r.position \in {"WR", "TE"} /\ Ge(r.targets, I(25))
       \/ r.position = "RB" /\ Ge(r.carries, I(40))
    /\ Le(r.season_age, I(25))

\* C12: a 'breakout' call returns only rows with games >= min_games, a position
\* other than QB, volume at the floor (WR/TE with targets >= 25, RB with
\* carries >= 40) and season_age <= 25, and all of them when at most top_n
\* qualify; a QB is never returned
C12_BreakoutFilter ==
    CandidatesReturned("breakout") =>
      /\ OnlyEligible(BreakoutEligible)
      /\ \A r \in RowSet(ranked.rows) : r.position # "QB"

\* a table with a high-scoring QB, a 24-year-old WR with 30 targets and one with
\* 20 targets: the first WR is returned, the QB and the second WR are not
C12_Witness ==
    /\ CandidatesReturned("breakout")
    /\ \E r \in RowSet(all_data.rows) :
          /\ r.position = "QB" /\ r.breakout_score = I(9) /\ Ge(r.games, I(call.min_games))
          /\ r \notin RowSet(ranked.rows)
    /\ \E r \in RowSet(ranked.rows) :
          r.position = "WR" /\ r.season_age = I(24) /\ r.targets = I(30)
    /\ \E r \in RowSet(all_data.rows) :
          /\ r.position = "WR" /\ r.season_age = I(24) /\ r.targets = I(20)
          /\ r \notin RowSet(ranked.rows)

SellHighEligible(r) ==
    /\ r.position # "QB"
    /\ \/ r.position = "RB" /\ Ge(r.season_age, I(26))
       \/ r.position \in {"WR", "TE"} /\ Ge(r.season_age, I(28))
    /\ \/ r.position \in {"WR", "TE"} /\ Ge(r.targets, I(60))
       \/ r.position = "RB" /\ Ge(r.carries, I(80))

\* C13: a 'sell_high' call returns only rows with games >= min_games, a position
\* other than QB, age in band (RB >= 26, WR/TE >= 28) and volume at the floor
\* (WR/TE with targets >= 60, RB with carries >= 80), and all of them when at
\* most top_n qualify
C13_SellHighFilter == CandidatesReturned("sell_high") => OnlyEligible(SellHighEligible)

\* a 26-year-old RB with 80 carries and a 28-year-old WR with 60 targets are both
\* returned; a row of the table is left out
C13_Witness ==
    /\ CandidatesReturned("sell_high")
    /\ \E r \in RowSet(ranked.rows) :
          r.position = "RB" /\ r.season_age = I(26) /\ r.carries = I(80)
    /\ \E r \in RowSet(ranked.rows) :
          r.position = "WR" /\ r.season_age = I(28) /\ r.targets = I(60)
    /\ Len(ranked.rows) < Len(all_data.rows)

BuyLowEligible(r) == Gt(r.air_yards_differential, Zero)

\* C14: a 'buy_low' call has no position filter and no volume floor: it returns
\* only rows with games >= min_games and air_yards_differential > 0, of any
\* position, and all of them when at most top_n qualify
C14_BuyLowFilter == CandidatesReturned("buy_low") => OnlyEligible(BuyLowEligible)

\* a QB with a positive differential is returned; a row with differential 0 or
\* below is left out
C14_Witness ==
    /\ CandidatesReturned("buy_low")
    /\ all_data.cols = RankCols
    /\ \E r \in RowSet(ranked.rows) : r.position = "QB"
    /\ \E r \in RowSet(ranked.rows) : r.position = "WR" /\ r.targets = I(20)
    /\ \E r \in RowSet(all_data.rows) :
          /\ Ge(r.games, I(call.min_games))
          /\ Le(r.air_yards_differential, Zero)
          /\ r \notin RowSet(ranked.rows)

\* the eligible rows of the category that was asked for
EligibleRows ==
    IF call.candidate_type = "breakout" THEN Eligible(BreakoutEligible)
    ELSE IF call.candidate_type = "sell_high" THEN Eligible(SellHighEligible)
    ELSE Eligible(BuyLowEligible)

Score(r) == r[sort_col(call.candidate_type)]

\* C15: the result of get_dynasty_candidates is in non-increasing order of the
\* category's score, has at most top_n rows, and no eligible row left out has a
\* score strictly greater than the score of a returned row
C15_TopNByScore ==
    (rpc = "returned" /\ call.fn = "get_dynasty_candidates"
        /\ call.candidate_type \in CandidateTypes) =>
      /\ \A i, j \in 1..Len(ranked.rows) :
            i < j => ~Lt(Score(ranked.rows[i]), Score(ranked.rows[j]))
      /\ Len(ranked.rows) <= call.top_n
      /\ \A out \in RowSet(EligibleRows) \ RowSet(ranked.rows) :
            \A r \in RowSet(ranked.rows) : ~Gt(Score(out), Score(r))

\* three eligible rows, the two returned have different scores and come in an
\* order other than the input's, the third is cut
C15_Witness ==
    /\ rpc = "returned" /\ call.fn = "get_dynasty_candidates"
    /\ call.candidate_type \in CandidateTypes
    /\ call.top_n = 2
    /\ Len(EligibleRows) = 3
    /\ Len(ranked.rows) = 2
    /\ Gt(Score(ranked.rows[1]), Score(ranked.rows[2]))
    /\ ranked.rows[1] = EligibleRows[3]

\* the place of a row in the input table
InputIndex(r) == CHOOSE i \in 1..Len(all_data.rows) : all_data.rows[i] = r

\* C16: two returned rows with equal category score are in the same relative
\* order as in the input table, and when the cut at top_n falls inside a group
\* of tied rows the rows kept are those earliest in the input order
C16_StableTies ==
    (rpc = "returned" /\ call.fn = "get_dynasty_candidates"
        /\ call.candidate_type \in CandidateTypes) =>
      /\ \A i, j \in 1..Len(ranked.rows) :
            (i < j /\ Eq(Score(ranked.rows[i]), Score(ranked.rows[j])))
               => InputIndex(ranked.rows[i]) < InputIndex(ranked.rows[j])
      /\ \A out \in RowSet(EligibleRows) \ RowSet(ranked.rows) :
            \A r \in RowSet(ranked.rows) :
               Eq(Score(out), Score(r)) => InputIndex(r) < InputIndex(out)

---------------------------------------------------------------------------
(* Properties of the ranking calls as a whole *)

\* the call that was made names a candidate type or a position with no branch
Unsupported ==
    \/ call.fn = "get_dynasty_candidates" /\ call.candidate_type \notin CandidateTypes
    \/ call.fn = "generate_dynasty_rankings" /\ call.position \notin RankedPositions

\* C17: a ranking request that names an unsupported candidate type or position
\* returns an empty table and never raises, whatever columns the input has
C17_UnsupportedReturnsEmpty ==
    (rpc \in {"returned", "raised"} /\ Unsupported) =>
      /\ rpc = "returned"
      /\ rerr = "none"
      /\ ranked.rows = <<>>

---------------------------------------------------------------------------
(* Properties of generate_dynasty_rankings *)

\* the rows of the position that was asked for
PositionRows == SelectSeq(all_data.rows, LAMBDA r : r.position = call.position)

\* the returned table is the position's rows in non-increasing order of the
\* sort metric, cut at top_n, ranked 1, 2, ..., k
RankedByMetric ==
    /\ rpc = "returned"
    /\ Len(ranked.rows) = (IF call.top_n < Len(PositionRows) THEN call.top_n
                           ELSE Len(PositionRows))
    /\ \A i \in 1..Len(ranked.rows) :
          /\ ranked.rows[i].rank = i
          /\ \E r \in RowSet(PositionRows) :
                \A c \in ranked.cols \ {"rank"} : ranked.rows[i][c] = r[c]
    /\ \A i, j \in 1..Len(ranked.rows) :
          i < j => ~Lt(ranked.rows[i][call.sort_by], ranked.rows[j][call.sort_by])

\* C22: on a scored table, generate_dynasty_rankings with its default sort_by
\* ('breakout_score') returns, for each of WR, RB, TE and QB, the rows of the
\* position in non-increasing order of the metric, cut at top_n, with rank
\* 1..k, and does not fail
C22_DefaultSortAllPositions ==
    (/\ rpc \in {"returned", "raised"}
     /\ call.fn = "generate_dynasty_rankings"
     /\ call.position \in RankedPositions
     /\ call.sort_by = "breakout_score"
     /\ all_data.cols = RankCols) => RankedByMetric

---------------------------------------------------------------------------
(* Properties of calculate_rankings_for_all_seasons *)

RankingViews ==
    {"get_current_season_rankings", "get_position_rankings", "get_player_history_by_id"}

\* the number of rows of r's season, and of the positions given, that have a
\* strictly greater fantasy_points_per_game than r
GreaterInSeason(r, rows, positions) ==
    Cardinality({i \in 1..Len(rows) :
                    /\ rows[i].season = r.season
                    /\ rows[i].position \in positions
                    /\ Gt(rows[i].fantasy_points_per_game, r.fantasy_points_per_game)})

PositionsOf(rows) == {rows[i].position : i \in 1..Len(rows)}

\* the table with the rows of one season only
OnlySeason(df, season) ==
    [cols |-> df.cols, rows |-> SelectSeq(df.rows, LAMBDA r : r.season = season)]

RankedAsCounted(r, rows) ==
    /\ r["Total Rank"] = 1 + GreaterInSeason(r, rows, PositionsOf(rows))
    /\ r["Pos Rank"] = 1 + GreaterInSeason(r, rows, {r.position})
    /\ 1 <= r["Pos Rank"]
    /\ r["Pos Rank"] <= r["Total Rank"]

\* C29: calculate_rankings_for_all_seasons keeps every input row; Total Rank is
\* one more than the number of rows of the same season with a strictly greater
\* fantasy_points_per_game, Pos Rank the same count within the position; hence
\* 1 <= Pos Rank <= Total Rank, and the ranks of a season are those of the table
\* holding that season alone
C29_RanksPerSeason ==
    (rpc = "returned" /\ call.fn \in RankingViews) =>
        LET full_df == calculate_rankings_for_all_seasons(all_data)
        IN  /\ Len(full_df.rows) = Len(all_data.rows)
            /\ \A r \in RowSet(all_data.rows) :
                  Cardinality({i \in 1..Len(full_df.rows) :
                                  Project(<<full_df.rows[i]>>, all_data.cols) = <<r>>})
                    = Cardinality({i \in 1..Len(all_data.rows) : all_data.rows[i] = r})
            /\ \A i \in 1..Len(full_df.rows) :
                  /\ RankedAsCounted(full_df.rows[i], all_data.rows)
                  /\ full_df.rows[i] \in
                       RowSet(calculate_rankings_for_all_seasons(
                                 OnlySeason(all_data, full_df.rows[i].season)).rows)
            /\ \A i \in 1..Len(ranked.rows) :
                  /\ ranked.rows[i] \in RowSet(full_df.rows)
                  /\ RankedAsCounted(ranked.rows[i], all_data.rows)

\* three rows, one of an earlier season: the two rows of 2025 tie for Total
\* Rank 1 and the third row keeps its place in the full table
C29_Witness ==
    /\ rpc = "returned"
    /\ call.fn = "get_current_season_rankings"
    /\ Len(all_data.rows) = 3
    /\ \E i \in 1..3 : all_data.rows[i].season = 2024
    /\ Len(ranked.rows) = 2
    /\ ranked.rows[1].position # ranked.rows[2].position
    /\ \A i \in 1..2 : ranked.rows[i]["Total Rank"] = 1 /\ ranked.rows[i]["Pos Rank"] = 1

=============================================================================
